---- MODULE Spec2Model ----
(***************************************************************************)
(* Model of prime-send-receive-go: the relational (SQLite) ledger backend, *)
(* the double-entry (Formance) ledger backend, the polling Reconciler and  *)
(* the withdrawal Coordinator.                                             *)
(*                                                                         *)
(* Amounts are integers (smallest units of one asset).                     *)
(*                                                                         *)
(* Database assumption of the relational part: a statement sees the rows   *)
(* committed when it runs plus the writes of its own transaction; the      *)
(* writes of a transaction become visible atomically at COMMIT; a          *)
(* statement of the program never fails for a reason the program's code    *)
(* does not name.                                                          *)
(***************************************************************************)
EXTENDS Integers, Sequences, FiniteSets, TLC

(***************************************************************************)
(* Bounds                                                                  *)
(***************************************************************************)
NumProcs == 2
MaxCalls == 4
MaxTime == 3

Procs == 1..NumProcs

(***************************************************************************)
(* Value sets of the relational storage spec                               *)
(***************************************************************************)
PTUsers == {"u1", "u2"}
PTAsset == "USDC"
PTAmounts == {-1, 2}
PTExtIds == {"", "e1"}

\* sentinel errors and outcomes of a ledger call
ErrDuplicateTransaction == "duplicate transaction"
ErrConcurrentModification == "concurrent modification detected"
ErrOther == "error"
Ok == "ok"

VARIABLES
    account_balances,   \* relational: user -> [balance, version]; version 0 = no row
    transactions,       \* relational: the journal, a sequence of rows
    pc,                 \* per process: position inside ProcessTransaction
    ptLocal,            \* per process: params and the values read inside the SQL transaction
    ptCalls,            \* number of ProcessTransaction calls started so far
    ptLog,              \* history: one record per finished ProcessTransaction call
    rfwp                \* per process: position inside RecordFailedWithdrawalPlatform

VARIABLES
    backend,            \* the configured ledger backend
    ledger,             \* double-entry: the ledger, a sequence of ledger transactions
    processedTxIds,     \* Reconciler: the correlation cache, a set of [id, at]
    now,                \* the clock
    exch,               \* Exchange: transaction id -> [status, created]
    coord,              \* per Coordinator invocation: [pc, balance]
    pollLog,            \* history: [id, status, handled] per transaction a cycle fetched
    run,                \* the listener process: positions of main, Start, Stop, the loops and tasks
    conv                \* an amount on its way through the ledger: [pos, amount, symbol, smallAmt, read]

dbVars == <<account_balances, transactions>>
ptVars == <<pc, ptLocal, ptCalls, ptLog, rfwp>>
sysVars == <<backend, ledger, processedTxIds, now, exch, coord, pollLog, run, conv>>
vars == <<account_balances, transactions, pc, ptLocal, ptCalls, ptLog, rfwp,
          backend, ledger, processedTxIds, now, exch, coord, pollLog, run, conv>>

(***************************************************************************)
(* Helpers                                                                 *)
(***************************************************************************)
RECURSIVE SumAmounts(_, _)
SumAmounts(rows, u) ==
    IF rows = <<>> THEN 0
    ELSE (IF Head(rows).user = u /\ Head(rows).status = "confirmed"
          THEN Head(rows).amount ELSE 0) + SumAmounts(Tail(rows), u)

\* queryCheckDuplicateTransaction: is there a row with this external id
ExistsExternalId(rows, ext) == \E i \in 1..Len(rows) : rows[i].ext = ext

NoRow == [balance |-> 0, version |-> 0]
NoLocal == [call |-> 0, user |-> "", type |-> "", amount |-> 0, ext |-> "",
            balance |-> 0, version |-> 0, created |-> FALSE]

\* no listener process
NoRun == [main |-> "none"]
NoConv == [pos |-> "none"]

\* a process that is not inside RecordFailedWithdrawalPlatform
NoRfwp == [pos |-> "none", call |-> 0]

\* the history record of a finished call
LogEntry(l, res) == [call |-> l.call, user |-> l.user, version |-> l.version,
                     created |-> l.created, result |-> res]

\* the row ProcessTransaction inserts into transactions
TxRow(l) == [user |-> l.user, asset |-> PTAsset, type |-> l.type, amount |-> l.amount,
             ext |-> l.ext, status |-> "confirmed"]

\* newBalance := currentBalance.Add(params.Amount)
NewBalanceOverwrite(cur, amt) == amt
NewBalance(cur, amt) == cur + amt

\* UPDATE account_balances ... WHERE user_id = ? AND asset = ? AND version = ?
UpdateIgnoresVersion(rowVersion, readVersion) == TRUE
UpdateMatches(rowVersion, readVersion) == rowVersion = readVersion

(***************************************************************************)
(* ProcessTransaction, statement by statement                              *)
(***************************************************************************)
\* a caller enters ProcessTransaction with its parameters
PT_Call(p) ==
    /\ pc[p] = "idle"
    /\ ptCalls < MaxCalls
    /\ \E u \in PTUsers, amt \in PTAmounts, e \in PTExtIds :
         ptLocal' = [ptLocal EXCEPT ![p] =
             [NoLocal EXCEPT !.call = ptCalls + 1, !.user = u, !.amount = amt, !.ext = e,
                             !.type = IF amt < 0 THEN "withdrawal" ELSE "deposit"]]
    /\ pc' = [pc EXCEPT ![p] = "checkdup"]
    /\ ptCalls' = ptCalls + 1
    /\ UNCHANGED <<dbVars, ptLog, rfwp, sysVars>>

\* a call that begins its SQL transaction whatever the duplicate check finds
PT_CheckDuplicateSkipped(p) ==
    /\ pc[p] = "checkdup"
    /\ pc' = [pc EXCEPT ![p] = "begin"]
    /\ UNCHANGED <<dbVars, ptLocal, ptCalls, ptLog, rfwp, sysVars>>

\* the duplicate check, run on the pool connection before the SQL transaction begins
PT_CheckDuplicate(p) ==
    /\ pc[p] = "checkdup"
    /\ IF ptLocal[p].ext # "" /\ ExistsExternalId(transactions, ptLocal[p].ext)
       THEN /\ pc' = [pc EXCEPT ![p] = "idle"]
            /\ ptLog' = ptLog \cup {LogEntry(ptLocal[p], ErrDuplicateTransaction)}
            /\ ptLocal' = [ptLocal EXCEPT ![p] = NoLocal]
       ELSE /\ pc' = [pc EXCEPT ![p] = "begin"]
            /\ UNCHANGED <<ptLocal, ptLog>>
    /\ UNCHANGED <<dbVars, ptCalls, rfwp, sysVars>>

\* BEGIN, then SELECT id, balance, version; no row: INSERT one with balance 0, version 1
PT_ReadBalance(p) ==
    /\ pc[p] = "begin"
    /\ LET row == account_balances[ptLocal[p].user] IN
       ptLocal' = [ptLocal EXCEPT ![p] =
           IF row.version = 0
           THEN [@ EXCEPT !.balance = 0, !.version = 1, !.created = TRUE]
           ELSE [@ EXCEPT !.balance = row.balance, !.version = row.version, !.created = FALSE]]
    /\ pc' = [pc EXCEPT ![p] = "write"]
    /\ UNCHANGED <<dbVars, ptCalls, ptLog, rfwp, sysVars>>

\* INSERT INTO transactions, the conditional UPDATE of the balance row, COMMIT
\* (or the deferred Rollback when an error is returned)
PT_WriteCommit(p) ==
    /\ pc[p] = "write"
    /\ LET l == ptLocal[p]
           row == account_balances[l.user]
           \* the row this transaction inserted collides with a committed one
           collides == l.created /\ row.version # 0
           matches == IF l.created THEN ~collides ELSE UpdateMatches(row.version, l.version)
           res == IF collides THEN ErrOther
                  ELSE IF matches THEN Ok ELSE ErrConcurrentModification
       IN /\ IF res = Ok
             THEN /\ account_balances' = [account_balances EXCEPT ![l.user] =
                         [balance |-> NewBalance(l.balance, l.amount),
                          version |-> l.version + 1]]
                  /\ transactions' = Append(transactions, TxRow(l))
             ELSE UNCHANGED dbVars
          /\ ptLog' = ptLog \cup {LogEntry(l, res)}
    /\ pc' = [pc EXCEPT ![p] = "idle"]
    /\ ptLocal' = [ptLocal EXCEPT ![p] = NoLocal]
    /\ UNCHANGED <<ptCalls, rfwp, sysVars>>

(***************************************************************************)
(* Specification of the relational storage: concurrent ProcessTransaction  *)
(***************************************************************************)
InitPT ==
    /\ account_balances = [u \in PTUsers |-> NoRow]
    /\ transactions = <<>>
    /\ pc = [p \in Procs |-> "idle"]
    /\ ptLocal = [p \in Procs |-> NoLocal]
    /\ ptCalls = 0
    /\ ptLog = {}
    /\ rfwp = [p \in Procs |-> NoRfwp]
    /\ run = NoRun
    /\ conv = NoConv
    /\ backend = "sqlite"
    /\ ledger = <<>>
    /\ processedTxIds = {}
    /\ now = 0
    /\ exch = <<>>
    /\ coord = <<>>
    /\ pollLog = {}

NextPT ==
    \E p \in Procs :
        \/ PT_Call(p)
        \/ PT_CheckDuplicate(p)
        \/ PT_ReadBalance(p)
        \/ PT_WriteCommit(p)

SpecPT == InitPT /\ [][NextPT]_vars

(***************************************************************************)
(* Properties of the relational storage                                    *)
(***************************************************************************)
\* finished calls that reached the conditional UPDATE having read (u, v) from an existing row
ReadersOf(u, v) ==
    {r \in ptLog : r.user = u /\ r.version = v /\ ~r.created
                   /\ r.result \in {Ok, ErrConcurrentModification}}

CommittedCalls == {r \in ptLog : r.result = Ok}

\* C6: no two journal rows share a non-empty external_transaction_id, for every
\* interleaving of concurrent ProcessTransaction calls (as stated by the claim).
C6_UniqueExternalIds ==
    \A i, j \in 1..Len(transactions) :
        (i # j /\ transactions[i].ext # "") => transactions[i].ext # transactions[j].ext

\* C7: after any sequence of ProcessTransaction calls (committed, rejected as
\* duplicate, failed on a version mismatch) the stored balance of every user
\* equals the signed sum of the user's confirmed journal amounts; a user with
\* no balance row has balance zero and sums to zero.
C7_BalanceEqualsJournalSum ==
    \A u \in PTUsers : account_balances[u].balance = SumAmounts(transactions, u)

C7_Witness ==
    /\ \E r \in ptLog : r.result = Ok
    /\ \E r \in ptLog : r.result = ErrDuplicateTransaction
    /\ \E r \in ptLog : r.result = ErrConcurrentModification
    /\ \E u \in PTUsers : account_balances[u].balance # 0
    /\ \E u \in PTUsers : account_balances[u].version = 0
    /\ \A p \in Procs : pc[p] = "idle"

C13_DuplicateBeforeMutation ==
    [][/\ \A p \in Procs :
            (/\ pc[p] = "checkdup" /\ pc'[p] # "checkdup"
             /\ ptLocal[p].ext # ""
             /\ ExistsExternalId(transactions, ptLocal[p].ext))
            => /\ UNCHANGED dbVars
               /\ pc'[p] = "idle"
               /\ LogEntry(ptLocal[p], ErrDuplicateTransaction) \in ptLog'
       /\ \A e \in PTExtIds :
            ExistsExternalId(transactions, e) => ExistsExternalId(transactions', e)]_vars

C13_Witness ==
    \E r \in ptLog :
        /\ r.result = ErrDuplicateTransaction
        /\ \E i \in 1..Len(transactions) : transactions[i].ext # "" /\ transactions[i].user = r.user

(***************************************************************************)
(* The store interface (store.LedgerStore) and its two backends, as pure   *)
(* operators on a store state S = [be, ab, txs, fl]:                       *)
(*   be  - the configured backend, "sqlite" or "formance"                  *)
(*   ab  - relational account_balances, txs - relational transactions     *)
(*   fl  - the double-entry ledger, a sequence of ledger transactions      *)
(* Every operator returns [S |-> store after the call, err |-> outcome].   *)
(* The outcome is Nil or an error; errors keep what the callers inspect:   *)
(* which sentinel they wrap and which text they contain.                   *)
(***************************************************************************)
Nil == "nil"
\* store.ErrDuplicateTransaction (the sentinel the callers test with errors.Is)
StoreErrDuplicateTransaction == "store: duplicate transaction"
ErrInsufficientFund == "INSUFFICIENT_FUND"
ErrNoUserForAddress == "no user found for address"
ErrNoTransactionFound == "no transaction found with withdrawal_ref"
ErrRevertNotSupported == "native revert not supported by SQLite backend"

\* errors.Is(err, store.ErrDuplicateTransaction)
IsStoreDuplicate(err) == err = StoreErrDuplicateTransaction

PortfolioId == "pf"
PlatformUser == "prime-platform"
PortfolioPlatformUser == "prime-platform-" \o PortfolioId
NoUser == ""
Alice == "alice"
AliceAddress == "0xA11CE"
SysUsers == {Alice, PlatformUser, PortfolioPlatformUser}

\* FindUserByAddress: the user owning a deposit address, NoUser when unmapped
FindUserByAddress(address) == IF address = AliceAddress THEN Alice ELSE NoUser

(***************************************************************************)
(* Relational backend (database.Service), calls made one at a time         *)
(***************************************************************************)
\* ProcessTransaction run without interleaving: duplicate check, read, insert,
\* conditional update, commit
ProcessTransaction(S, user, type, amount, ext) ==
    IF ext # "" /\ ExistsExternalId(S.txs, ext)
    THEN [S |-> S, err |-> ErrDuplicateTransaction]
    ELSE LET row == S.ab[user]
             l == [NoLocal EXCEPT !.user = user, !.type = type, !.amount = amount,
                                  !.ext = ext,
                                  !.balance = row.balance,
                                  !.version = IF row.version = 0 THEN 1 ELSE row.version]
         IN [S |-> [S EXCEPT !.ab = [S.ab EXCEPT ![user] =
                                        [balance |-> NewBalance(l.balance, l.amount),
                                         version |-> l.version + 1]],
                             !.txs = Append(S.txs, TxRow(l))],
             err |-> Nil]

DB_ProcessDepositPending(S) == [S |-> S, err |-> Nil]

DB_ProcessDeposit(S, address, amount, transactionId) ==
    IF FindUserByAddress(address) = NoUser
    THEN [S |-> S, err |-> ErrNoUserForAddress]
    ELSE ProcessTransaction(S, FindUserByAddress(address), "deposit", amount, transactionId)

DB_ConfirmDeposit(S, address, amount, transactionId) ==
    DB_ProcessDeposit(S, address, amount, transactionId)

DB_ProcessWithdrawal(S, userId, amount, transactionId) ==
    ProcessTransaction(S, userId, "withdrawal", 0 - amount, transactionId)

\* swallows only store.ErrDuplicateTransaction, which ProcessTransaction never returns
DB_ProcessWithdrawalFromWallet(S, amount, transactionId) ==
    LET r == ProcessTransaction(S, PlatformUser, "withdrawal", 0 - amount, transactionId)
    IN IF r.err # Nil /\ ~IsStoreDuplicate(r.err) THEN r ELSE [S |-> r.S, err |-> Nil]

DB_RecordFailedWithdrawalPlatform(S, amount, transactionId) ==
    LET r1 == ProcessTransaction(S, PlatformUser, "withdrawal", 0 - amount, transactionId)
    IN IF r1.err # Nil /\ ~IsStoreDuplicate(r1.err) THEN r1
       ELSE LET r2 == ProcessTransaction(r1.S, PlatformUser, "deposit", amount,
                                         transactionId \o "-failed-reversal")
            IN IF r2.err # Nil /\ ~IsStoreDuplicate(r2.err) THEN r2
               ELSE [S |-> r2.S, err |-> Nil]

DB_ConfirmWithdrawalDirect(S, userId, amount, externalTxId) ==
    LET r == ProcessTransaction(S, userId, "withdrawal", 0 - amount, externalTxId)
    IN IF r.err # Nil /\ ~IsStoreDuplicate(r.err) THEN r ELSE [S |-> r.S, err |-> Nil]

DB_ConfirmWithdrawal(S) == [S |-> S, err |-> Nil]

DB_HasPendingWithdrawal(S, withdrawalRef) == ExistsExternalId(S.txs, withdrawalRef)

DB_RevertTransactionSilent(S) == [S |-> S, err |-> Nil]
DB_RevertTransaction(S) == [S |-> S, err |-> ErrRevertNotSupported]

\* the external id of the compensating credit
ReversalId(originalTxId) == originalTxId \o "-reversal"

DB_ReverseWithdrawal(S, userId, amount, originalTxId) ==
    ProcessTransaction(S, userId, "deposit", amount, ReversalId(originalTxId))

DB_GetUserBalance(S, userId) == S.ab[userId].balance

(***************************************************************************)
(* Double-entry backend (formance.Service).  A ledger transaction is       *)
(* [ref, postings, wref, event, reverted]; wref is metadata                *)
(* "withdrawal_ref" (NoMeta when the script does not set it).  The ledger  *)
(* rejects a reference that already exists (CONFLICT) before it runs the   *)
(* script, and rejects a posting whose source is not allowed to overdraft  *)
(* and holds less than the amount (INSUFFICIENT_FUND).                     *)
(***************************************************************************)
NoMeta == "<unset>"
NoRef == ""
ErrConflict == "CONFLICT"

WalletAccount == "prime:portfolio:" \o PortfolioId \o ":wallets:w"
DepositsPendingAccount == "prime:portfolio:" \o PortfolioId \o ":deposits:pending"
WithdrawalsPendingAccount == "prime:portfolio:" \o PortfolioId \o ":withdrawals:pending"
UserAccount(userId) == "users:" \o userId

ConversionsAccount == "prime:portfolio:" \o PortfolioId \o ":conversions"
OtherWalletAccount == "prime:portfolio:" \o PortfolioId \o ":wallets:w2"
OtherAsset == "USD"
Assets == {PTAsset, OtherAsset}

\* one posting of a "send [asset amt] (source = src, destination = dst)"
Posting(src, dst, amt, overdraft) ==
    [src |-> src, dst |-> dst, amt |-> amt, overdraft |-> overdraft, asset |-> PTAsset]

PostingIn(asset, p) == [p EXCEPT !.asset = asset]

\* a volume count that books only the credit side of a posting
RECURSIVE AssetDeltaCreditsOnly(_, _, _)
AssetDeltaCreditsOnly(ps, account, asset) ==
    IF ps = <<>> THEN 0
    ELSE (IF Head(ps).asset = asset /\ Head(ps).dst = account THEN Head(ps).amt ELSE 0)
         + AssetDeltaCreditsOnly(Tail(ps), account, asset)

\* what a list of postings adds to an account's volumes in one asset:
\* input (destination) minus output (source)
RECURSIVE AssetDelta(_, _, _)
AssetDelta(ps, account, asset) ==
    IF ps = <<>> THEN 0
    ELSE (IF Head(ps).asset = asset /\ Head(ps).dst = account THEN Head(ps).amt ELSE 0)
         - (IF Head(ps).asset = asset /\ Head(ps).src = account THEN Head(ps).amt ELSE 0)
         + AssetDelta(Tail(ps), account, asset)

PostingsDelta(ps, account) == AssetDelta(ps, account, PTAsset)

\* balance of an account: input volume minus output volume
RECURSIVE volumeBalance(_, _)
volumeBalance(fl, account) ==
    IF fl = <<>> THEN 0
    ELSE PostingsDelta(Head(fl).postings, account) + volumeBalance(Tail(fl), account)

\* every bounded source holds the amount when its posting runs
RECURSIVE Fundable(_, _, _)
Fundable(fl, applied, ps) ==
    IF ps = <<>> THEN TRUE
    ELSE /\ \/ Head(ps).overdraft
            \/ volumeBalance(fl, Head(ps).src) + PostingsDelta(applied, Head(ps).src)
                  >= Head(ps).amt
         /\ Fundable(fl, Append(applied, Head(ps)), Tail(ps))

HasReferenceNever(fl, ref) == FALSE
HasReference(fl, ref) == \E i \in 1..Len(fl) : fl[i].ref = ref

\* Ledger.V2.CreateTransaction
CreateTransaction(fl, ref, ps, wref, event) ==
    IF ref # NoRef /\ HasReference(fl, ref) THEN [fl |-> fl, err |-> ErrConflict]
    ELSE IF ~Fundable(fl, <<>>, ps) THEN [fl |-> fl, err |-> ErrInsufficientFund]
    ELSE [fl |-> Append(fl, [ref |-> ref, postings |-> ps, wref |-> wref,
                             event |-> event, reverted |-> FALSE]),
          err |-> Nil]

\* Ledger.V2.ListTransactions with $match metadata[withdrawal_ref], page size 1:
\* the index of Data[0] (the ledger lists newest first), 0 when nothing matches
FirstByWithdrawalRef(fl, withdrawalRef) ==
    LET m == {i \in 1..Len(fl) : fl[i].wref = withdrawalRef}
    IN IF m = {} THEN 0 ELSE CHOOSE i \in m : \A j \in m : j <= i

\* a revert that posts the mirror but leaves the original unflagged
NativeRevertUnflagged(fl, i) ==
    LET p == fl[i].postings[1]
        mirror == <<PostingIn(p.asset, Posting(p.dst, p.src, p.amt, FALSE))>>
    IN IF ~Fundable(fl, <<>>, mirror) THEN [fl |-> fl, err |-> ErrInsufficientFund]
       ELSE [fl |-> Append(fl, [ref |-> NoRef, postings |-> mirror, wref |-> NoMeta,
                                event |-> "revert", reverted |-> FALSE]),
             err |-> Nil]

\* Ledger.V2.RevertTransaction of transaction i: a mirror posting, the original flagged
NativeRevert(fl, i) ==
    LET p == fl[i].postings[1]
        mirror == <<PostingIn(p.asset, Posting(p.dst, p.src, p.amt, FALSE))>>
    IN IF fl[i].reverted THEN [fl |-> fl, err |-> ErrConflict]
       ELSE IF ~Fundable(fl, <<>>, mirror) THEN [fl |-> fl, err |-> ErrInsufficientFund]
       ELSE [fl |-> Append([fl EXCEPT ![i].reverted = TRUE],
                           [ref |-> NoRef, postings |-> mirror, wref |-> NoMeta,
                            event |-> "revert", reverted |-> FALSE]),
             err |-> Nil]

\* wrap a ledger result: CONFLICT becomes onConflict, any other failure a plain error
FResult(S, r, onConflict) ==
    [S |-> [S EXCEPT !.fl = r.fl],
     err |-> IF r.err = Nil THEN Nil
             ELSE IF r.err = ErrConflict THEN onConflict
             ELSE r.err]

\* the user a deposit address resolves to in the double-entry backend
PlatformOr(user) == IF user = NoUser THEN PortfolioPlatformUser ELSE user

F_ProcessDepositPending(S, amount, transactionId) ==
    FResult(S, CreateTransaction(S.fl, transactionId \o "-pending",
                <<Posting(WalletAccount, DepositsPendingAccount, amount, TRUE)>>,
                NoMeta, "deposit_pending"), Nil)

F_ConfirmDeposit(S, address, amount, transactionId) ==
    FResult(S, CreateTransaction(S.fl, transactionId \o "-confirmed",
                <<Posting(DepositsPendingAccount,
                          UserAccount(PlatformOr(FindUserByAddress(address))), amount, FALSE)>>,
                NoMeta, "deposit_confirmed"), StoreErrDuplicateTransaction)

F_ProcessDeposit(S, address, amount, transactionId) ==
    FResult(S, CreateTransaction(S.fl, transactionId,
                <<Posting(WalletAccount,
                          UserAccount(PlatformOr(FindUserByAddress(address))), amount, TRUE)>>,
                NoMeta, "deposit_received"), StoreErrDuplicateTransaction)

F_ProcessWithdrawalFromWallet(S, amount, transactionId) ==
    FResult(S, CreateTransaction(S.fl, transactionId,
                <<Posting(WalletAccount, WithdrawalsPendingAccount, amount, TRUE)>>,
                NoMeta, "withdrawal_pending_from_wallet"), Nil)

F_ProcessWithdrawal(S, userId, amount, transactionId) ==
    FResult(S, CreateTransaction(S.fl, transactionId,
                <<Posting(UserAccount(userId), WithdrawalsPendingAccount, amount, FALSE)>>,
                transactionId, "withdrawal_initiated"), StoreErrDuplicateTransaction)

F_ConfirmWithdrawal(S, amount, withdrawalRef, externalTxId) ==
    FResult(S, CreateTransaction(S.fl, externalTxId \o "-confirmed",
                <<Posting(WithdrawalsPendingAccount, WalletAccount, amount, FALSE)>>,
                withdrawalRef, "withdrawal_confirmed"), StoreErrDuplicateTransaction)

F_ConfirmWithdrawalDirect(S, userId, amount, externalTxId, withdrawalRef) ==
    FResult(S, CreateTransaction(S.fl, externalTxId \o "-direct",
                <<Posting(UserAccount(userId), WalletAccount, amount, TRUE)>>,
                withdrawalRef, "withdrawal_confirmed_direct"), Nil)

F_HasPendingWithdrawal(S, withdrawalRef) ==
    LET i == FirstByWithdrawalRef(S.fl, withdrawalRef)
    IN i # 0 /\ ~S.fl[i].reverted

F_RevertTransaction(S, reference) ==
    LET i == FirstByWithdrawalRef(S.fl, reference)
    IN IF i = 0 THEN [S |-> S, err |-> ErrNoTransactionFound]
       ELSE IF S.fl[i].reverted THEN [S |-> S, err |-> Nil]
       ELSE FResult(S, NativeRevert(S.fl, i), Nil)

F_RecordFailedWithdrawalPlatform(S, amount, transactionId) ==
    FResult(S, CreateTransaction(S.fl, transactionId,
                <<Posting(WalletAccount, WithdrawalsPendingAccount, amount, TRUE),
                  Posting(WithdrawalsPendingAccount, WalletAccount, amount, FALSE)>>,
                NoMeta, "withdrawal_failed_platform_round_trip"), Nil)

\* RecordConversion: two sends in two assets under one reference
F_RecordConversion(S, sourceAmount, destinationAmount, transactionId) ==
    FResult(S, CreateTransaction(S.fl, transactionId,
                <<PostingIn(OtherAsset,
                            Posting(ConversionsAccount, OtherWalletAccount, sourceAmount, TRUE)),
                  Posting(WalletAccount, ConversionsAccount, destinationAmount, TRUE)>>,
                NoMeta, "conversion"), Nil)

\* RecordPlatformTransaction: wallet to the portfolio's platform user
F_RecordPlatformTransaction(S, amount, transactionId) ==
    FResult(S, CreateTransaction(S.fl, transactionId,
                <<Posting(WalletAccount, UserAccount(PortfolioPlatformUser), amount, TRUE)>>,
                NoMeta, "platform_transaction"), Nil)

F_ReverseWithdrawal(S, userId, amount, originalTxId) ==
    FResult(S, CreateTransaction(S.fl, ReversalId(originalTxId),
                <<Posting(WithdrawalsPendingAccount, UserAccount(userId), amount, TRUE)>>,
                originalTxId, "withdrawal_failed_reversal"), StoreErrDuplicateTransaction)

F_GetUserBalance(S, userId) == volumeBalance(S.fl, UserAccount(userId))

(***************************************************************************)
(* store.LedgerStore: the backend is chosen once, at service construction  *)
(***************************************************************************)
Sqlite == "sqlite"
Formance == "formance"
Backends == {Sqlite, Formance}

ProcessDepositPending(S, amount, transactionId) ==
    IF S.be = Sqlite THEN DB_ProcessDepositPending(S)
    ELSE F_ProcessDepositPending(S, amount, transactionId)

ConfirmDeposit(S, address, amount, transactionId) ==
    IF S.be = Sqlite THEN DB_ConfirmDeposit(S, address, amount, transactionId)
    ELSE F_ConfirmDeposit(S, address, amount, transactionId)

ProcessDeposit(S, address, amount, transactionId) ==
    IF S.be = Sqlite THEN DB_ProcessDeposit(S, address, amount, transactionId)
    ELSE F_ProcessDeposit(S, address, amount, transactionId)

ProcessWithdrawal(S, userId, amount, transactionId) ==
    IF S.be = Sqlite THEN DB_ProcessWithdrawal(S, userId, amount, transactionId)
    ELSE F_ProcessWithdrawal(S, userId, amount, transactionId)

ProcessWithdrawalFromWallet(S, amount, transactionId) ==
    IF S.be = Sqlite THEN DB_ProcessWithdrawalFromWallet(S, amount, transactionId)
    ELSE F_ProcessWithdrawalFromWallet(S, amount, transactionId)

ConfirmWithdrawal(S, amount, withdrawalRef, externalTxId) ==
    IF S.be = Sqlite THEN DB_ConfirmWithdrawal(S)
    ELSE F_ConfirmWithdrawal(S, amount, withdrawalRef, externalTxId)

ConfirmWithdrawalDirect(S, userId, amount, externalTxId, withdrawalRef) ==
    IF S.be = Sqlite THEN DB_ConfirmWithdrawalDirect(S, userId, amount, externalTxId)
    ELSE F_ConfirmWithdrawalDirect(S, userId, amount, externalTxId, withdrawalRef)

ReverseWithdrawalDropped(S, userId, amount, originalTxId) == [S |-> S, err |-> Nil]
ReverseWithdrawal(S, userId, amount, originalTxId) ==
    IF S.be = Sqlite THEN DB_ReverseWithdrawal(S, userId, amount, originalTxId)
    ELSE F_ReverseWithdrawal(S, userId, amount, originalTxId)

HasPendingWithdrawal(S, withdrawalRef) ==
    IF S.be = Sqlite THEN DB_HasPendingWithdrawal(S, withdrawalRef)
    ELSE F_HasPendingWithdrawal(S, withdrawalRef)

RevertTransaction(S, reference) ==
    IF S.be = Sqlite THEN DB_RevertTransaction(S) ELSE F_RevertTransaction(S, reference)

RecordFailedWithdrawalPlatform(S, amount, transactionId) ==
    IF S.be = Sqlite THEN DB_RecordFailedWithdrawalPlatform(S, amount, transactionId)
    ELSE F_RecordFailedWithdrawalPlatform(S, amount, transactionId)

GetUserBalance(S, userId) ==
    IF S.be = Sqlite THEN DB_GetUserBalance(S, userId) ELSE F_GetUserBalance(S, userId)

(***************************************************************************)
(* api.LedgerService: the calls the Reconciler makes through it.  A result *)
(* is [S, Success, Error]; Error is the text of the backend's error.       *)
(***************************************************************************)
DuplicateText == "duplicate transaction"
UserNotFoundText == "no user found for address"

\* err.Error(): every backend error reaches the caller wrapped with context
ErrorText(err) ==
    CASE err = StoreErrDuplicateTransaction ->
             DuplicateText \o ": external_transaction_id already exists"
      [] err = ErrDuplicateTransaction ->
             "error processing transaction: " \o DuplicateText
                 \o ": external_transaction_id already exists"
      [] err = ErrNoUserForAddress -> UserNotFoundText \o ": address"
      [] OTHER -> err

\* strings.Contains(text, "duplicate transaction")
TextContainsDuplicate(text) ==
    text \in {ErrorText(StoreErrDuplicateTransaction), ErrorText(ErrDuplicateTransaction),
              DuplicateText}

APIResult(S, success, error) == [S |-> S, Success |-> success, Error |-> error]

API_ProcessDeposit(S, address, amount, externalTxId) ==
    IF address = "" \/ amount <= 0 \/ externalTxId = ""
    THEN APIResult(S, FALSE, "invalid deposit parameters")
    ELSE LET r == ProcessDeposit(S, address, amount, externalTxId)
         IN IF r.err # Nil THEN APIResult(r.S, FALSE, ErrorText(r.err))
            ELSE IF FindUserByAddress(address) = NoUser
                 THEN APIResult(r.S, FALSE, "user lookup failed after deposit")
                 ELSE APIResult(r.S, TRUE, "")

\* returns [S, err]: a duplicate confirmation is not an error
API_ConfirmWithdrawal(S, amount, withdrawalRef, externalTxId) ==
    LET r == ConfirmWithdrawal(S, amount, withdrawalRef, externalTxId)
    IN IF r.err # Nil /\ IsStoreDuplicate(r.err) THEN [S |-> r.S, err |-> Nil] ELSE r

API_CreditBackFailedWithdrawal(S, userId, amount, originalTxId) ==
    IF userId = "" \/ amount <= 0 \/ originalTxId = ""
    THEN APIResult(S, FALSE, "invalid credit-back parameters")
    ELSE LET r == ReverseWithdrawal(S, userId, amount, originalTxId)
         IN IF r.err # Nil THEN APIResult(r.S, FALSE, ErrorText(r.err))
            ELSE APIResult(r.S, TRUE, "")

(***************************************************************************)
(* The Reconciler (listener.SendReceiveListener).  Its handlers are pure    *)
(* operators on L = [S, cache]: the store and processedTxIds, a set of      *)
(* [id, at] entries.  A handler's error return is only logged by its        *)
(* callers, so the handlers return the new L.  tx is a fetched Exchange     *)
(* transaction [id, type, status, amount, address, key]; t is time.Now().   *)
(***************************************************************************)
Abs(n) == IF n < 0 THEN 0 - n ELSE n

isTransactionProcessed(L, txId) == \E e \in L.cache : e.id = txId

markTransactionProcessed(L, txId, t) ==
    [L EXCEPT !.cache = {e \in L.cache : e.id # txId} \cup {[id |-> txId, at |-> t]}]

WithStore(L, S) == [L EXCEPT !.S = S]

\* strings.Split(key, "-")[0] for the keys that occur
KeyPrefix(key) ==
    CASE key \in {"alice-k1", "alice-k2", "alice-k6"} -> "alice"
      [] key \in {"ext-k9", "ext-k5"} -> "ext"
      [] OTHER -> key

\* the user whose id starts with the key's first segment; NoUser stands for the error
findUserByIdempotencyKeyPrefix(idempotencyKey) ==
    IF idempotencyKey = "" THEN NoUser
    ELSE IF KeyPrefix(idempotencyKey) = Alice THEN Alice ELSE NoUser

processDepositPending(L, tx, t) ==
    IF tx.amount <= 0 THEN L
    ELSE LET r == ProcessDepositPending(L.S, tx.amount, tx.id)
         IN IF r.err # Nil
            THEN IF IsStoreDuplicate(r.err)
                 THEN markTransactionProcessed(WithStore(L, r.S), tx.id, t)
                 ELSE WithStore(L, r.S)
            ELSE markTransactionProcessed(WithStore(L, r.S), tx.id, t)

\* a handler that marks the transaction whatever the fallback deposit returned
processDepositConfirmedMarking(L, tx, t) ==
    IF tx.amount <= 0 \/ tx.address = "" THEN L
    ELSE LET c == ConfirmDeposit(L.S, tx.address, tx.amount, tx.id)
         IN IF c.err = Nil THEN markTransactionProcessed(WithStore(L, c.S), tx.id, t)
            ELSE markTransactionProcessed(
                     WithStore(L, API_ProcessDeposit(c.S, tx.address, tx.amount, tx.id).S),
                     tx.id, t)

processDepositConfirmed(L, tx, t) ==
    IF tx.amount <= 0 \/ tx.address = "" THEN L
    ELSE LET c == ConfirmDeposit(L.S, tx.address, tx.amount, tx.id)
         IN IF c.err = Nil THEN markTransactionProcessed(WithStore(L, c.S), tx.id, t)
            ELSE LET r == API_ProcessDeposit(c.S, tx.address, tx.amount, tx.id)
                 IN IF ~r.Success
                    THEN IF r.Error = DuplicateText \/ r.Error = UserNotFoundText
                         THEN markTransactionProcessed(WithStore(L, r.S), tx.id, t)
                         ELSE WithStore(L, r.S)
                    ELSE markTransactionProcessed(WithStore(L, r.S), tx.id, t)

processDeposit(L, tx, t) ==
    IF tx.status = "TRANSACTION_IMPORT_PENDING" THEN processDepositPending(L, tx, t)
    ELSE IF tx.status = "TRANSACTION_IMPORTED" THEN processDepositConfirmed(L, tx, t)
    ELSE L

\* destination address first, then the idempotency key prefix
matchWithdrawalUser(tx) ==
    LET byAddress == IF tx.address # "" THEN FindUserByAddress(tx.address) ELSE NoUser
    IN IF byAddress # NoUser THEN byAddress
       ELSE findUserByIdempotencyKeyPrefix(tx.key)

handlePendingWithdrawal(L, tx, t) ==
    LET amount == Abs(tx.amount)
        userId == matchWithdrawalUser(tx)
        r == ProcessWithdrawal(L.S, userId, amount, tx.id)
        fromWallet(S) ==
            LET w == ProcessWithdrawalFromWallet(S, amount, tx.id)
            IN IF w.err # Nil THEN WithStore(L, w.S)
               ELSE markTransactionProcessed(WithStore(L, w.S), tx.id, t)
    IN IF amount = 0 THEN markTransactionProcessed(L, tx.id, t)
       ELSE IF userId = NoUser THEN fromWallet(L.S)
       ELSE IF r.err = Nil \/ IsStoreDuplicate(r.err)
            THEN markTransactionProcessed(WithStore(L, r.S), tx.id, t)
            ELSE fromWallet(r.S)

handleFailedWithdrawal(L, tx, t) ==
    LET amount == Abs(tx.amount)
        userId == findUserByIdempotencyKeyPrefix(tx.key)
        p == RecordFailedWithdrawalPlatform(L.S, amount, tx.id)
        rv == RevertTransaction(L.S, tx.key)
        cb == API_CreditBackFailedWithdrawal(rv.S, userId, amount, tx.key)
    IN IF amount <= 0 THEN L
       ELSE IF userId = NoUser
            THEN IF p.err # Nil THEN WithStore(L, p.S)
                 ELSE markTransactionProcessed(WithStore(L, p.S), tx.id, t)
       ELSE IF rv.err = Nil THEN markTransactionProcessed(WithStore(L, rv.S), tx.id, t)
       ELSE IF rv.err = ErrNoTransactionFound
            THEN markTransactionProcessed(WithStore(L, rv.S), tx.id, t)
       ELSE IF ~cb.Success
            THEN IF TextContainsDuplicate(cb.Error)
                 THEN markTransactionProcessed(WithStore(L, cb.S), tx.id, t)
                 ELSE WithStore(L, cb.S)
       ELSE markTransactionProcessed(WithStore(L, cb.S), tx.id, t)

TerminalFailures == {"TRANSACTION_CANCELLED", "TRANSACTION_REJECTED",
                     "TRANSACTION_FAILED", "TRANSACTION_EXPIRED"}

processWithdrawal(L, tx, t) ==
    LET amount == Abs(tx.amount)
        matched == matchWithdrawalUser(tx)
        userId == IF matched = NoUser THEN PortfolioPlatformUser ELSE matched
        hasPending == \/ HasPendingWithdrawal(L.S, tx.key)
                      \/ HasPendingWithdrawal(L.S, tx.id)
        c == API_ConfirmWithdrawal(L.S, amount, tx.key, tx.id)
        d == ConfirmWithdrawalDirect(L.S, userId, amount, tx.id, tx.key)
    IN IF tx.status \in TerminalFailures THEN handleFailedWithdrawal(L, tx, t)
       ELSE IF tx.status = "OTHER_TRANSACTION_STATUS" THEN handlePendingWithdrawal(L, tx, t)
       ELSE IF tx.status # "TRANSACTION_DONE" THEN L
       ELSE IF amount = 0 THEN markTransactionProcessed(L, tx.id, t)
       ELSE IF hasPending
            THEN IF c.err # Nil /\ ~IsStoreDuplicate(c.err) THEN WithStore(L, c.S)
                 ELSE markTransactionProcessed(WithStore(L, c.S), tx.id, t)
            ELSE IF d.err # Nil THEN WithStore(L, d.S)
                 ELSE markTransactionProcessed(WithStore(L, d.S), tx.id, t)

processTransaction(L, tx, t) ==
    IF isTransactionProcessed(L, tx.id) THEN L
    ELSE IF tx.type = "DEPOSIT" THEN processDeposit(L, tx, t)
    ELSE IF tx.type = "WITHDRAWAL" THEN processWithdrawal(L, tx, t)
    ELSE L

\* pollWallet / recoverWalletTransactions: every fetched transaction not in the cache
\* a loop that returns at the first transaction whose dispatch leaves it unmarked
RECURSIVE pollWalletHalting(_, _, _)
pollWalletHalting(L, fetched, t) ==
    IF fetched = <<>> THEN L
    ELSE LET L2 == IF isTransactionProcessed(L, Head(fetched).id) THEN L
                   ELSE processTransaction(L, Head(fetched), t)
         IN IF isTransactionProcessed(L2, Head(fetched).id)
            THEN pollWalletHalting(L2, Tail(fetched), t)
            ELSE L2

RECURSIVE pollWallet(_, _, _)
pollWallet(L, fetched, t) ==
    IF fetched = <<>> THEN L
    ELSE pollWallet(IF isTransactionProcessed(L, Head(fetched).id) THEN L
                    ELSE processTransaction(L, Head(fetched), t),
                    Tail(fetched), t)

\* a cleanup that also drops the entries marked exactly lookbackWindow ago
cleanupProcessedTransactionsEager(cache, t, lookbackWindow) ==
    {e \in cache : e.at > t - lookbackWindow}

\* cleanupProcessedTransactions: drop the entries marked before now - lookbackWindow
cleanupProcessedTransactions(cache, t, lookbackWindow) ==
    {e \in cache : ~(e.at < t - lookbackWindow)}

(***************************************************************************)
(* The Exchange and the running system                                     *)
(***************************************************************************)
\* LISTENER_LOOKBACK_WINDOW, default 6 hours; one tick of the clock is 3 hours
LookbackWindow == 2

DepositIds == {"d1", "d2"}

\* withdrawals that do not start in the Coordinator
ExternalIds == {"w5", "w6", "w9"}

\* the fields of an Exchange transaction that never change; amount is the amount
\* of a transfer that did not start in the Coordinator
TxInfo(id) ==
    CASE id = "d1" -> [type |-> "DEPOSIT", amount |-> 2, address |-> AliceAddress, key |-> ""]
      [] id = "d2" -> [type |-> "DEPOSIT", amount |-> 3, address |-> "0xB0B", key |-> ""]
      [] id = "w1" -> [type |-> "WITHDRAWAL", amount |-> 2, address |-> "0xdest",
                       key |-> "alice-k1"]
      [] id = "w2" -> [type |-> "WITHDRAWAL", amount |-> 2, address |-> "0xdest",
                       key |-> "alice-k2"]
      [] id = "w9" -> [type |-> "WITHDRAWAL", amount |-> -2, address |-> "0xdest",
                       key |-> "ext-k9"]
      [] id = "w5" -> [type |-> "WITHDRAWAL", amount |-> -2, address |-> AliceAddress,
                       key |-> "ext-k5"]
      [] id = "w6" -> [type |-> "WITHDRAWAL", amount |-> -2, address |-> "0xdest",
                       key |-> "alice-k6"]
      [] id = "d3" -> [type |-> "DEPOSIT", amount |-> 1, address |-> AliceAddress, key |-> ""]

NotListed == [status |-> "none", created |-> 0, amount |-> 0]

\* models.PrimeTransaction as fetchWalletTransactions converts it
PrimeTransaction(id) ==
    [id |-> id, type |-> TxInfo(id).type, status |-> exch[id].status,
     amount |-> exch[id].amount, address |-> TxInfo(id).address, key |-> TxInfo(id).key]

\* ListWalletTransactions(since): the ids the Exchange returns
Fetched(since) ==
    {id \in DOMAIN exch : exch[id].status # "none" /\ exch[id].created >= since}

\* the orders in which a page can list a set of ids
Orderings(ids) ==
    {o \in [1..Cardinality(ids) -> ids] : \A i, j \in DOMAIN o : i # j => o[i] # o[j]}

StoreState == [be |-> backend, ab |-> account_balances, txs |-> transactions, fl |-> ledger]
Listener == [S |-> StoreState, cache |-> processedTxIds]

SetStore(S) ==
    /\ account_balances' = S.ab
    /\ transactions' = S.txs
    /\ ledger' = S.fl

\* one pass over the wallet's transactions created inside the lookback window
Cycle(L) ==
    LET ids == Fetched(now - LookbackWindow)
    IN \E o \in Orderings(ids) :
         LET L2 == pollWallet(L, [i \in DOMAIN o |-> PrimeTransaction(o[i])], now)
         IN /\ SetStore(L2.S)
            /\ processedTxIds' = L2.cache
            /\ pollLog' = pollLog \cup
                   {[id |-> id, status |-> exch[id].status,
                     handled |-> ~isTransactionProcessed(L, id)] : id \in ids}

\* pollLoop: a tick of the polling interval
Poll ==
    /\ Cycle(Listener)
    /\ UNCHANGED <<backend, now, exch, coord, ptVars, run, conv>>

\* the process is restarted: an empty cache, then performStartupRecovery
Start ==
    /\ Cycle([Listener EXCEPT !.cache = {}])
    /\ UNCHANGED <<backend, now, exch, coord, ptVars, run, conv>>

\* cleanupLoop: a tick of the cleanup interval
Cleanup ==
    /\ processedTxIds' = cleanupProcessedTransactions(processedTxIds, now, LookbackWindow)
    /\ UNCHANGED <<dbVars, ptVars, run, conv, backend, ledger, now, exch, coord, pollLog>>

Tick ==
    /\ now < MaxTime
    /\ now' = now + 1
    /\ UNCHANGED <<dbVars, ptVars, run, conv, backend, ledger, processedTxIds, exch, coord, pollLog>>

\* the Exchange lists a new deposit, import-pending or already imported
Exch_DepositReported(d) ==
    /\ exch[d].status = "none"
    /\ \E st \in {"TRANSACTION_IMPORT_PENDING", "TRANSACTION_IMPORTED", "TRANSACTION_FAILED"} :
         exch' = [exch EXCEPT ![d] = [status |-> st, created |-> now,
                                       amount |-> TxInfo(d).amount]]
    /\ UNCHANGED <<dbVars, ptVars, run, conv, backend, ledger, processedTxIds, now, coord, pollLog>>

Exch_DepositImported(d) ==
    /\ exch[d].status = "TRANSACTION_IMPORT_PENDING"
    /\ exch' = [exch EXCEPT ![d].status = "TRANSACTION_IMPORTED"]
    /\ UNCHANGED <<dbVars, ptVars, run, conv, backend, ledger, processedTxIds, now, coord, pollLog>>

(***************************************************************************)
(* Specification of the deposit path: the Exchange reports deposits, the   *)
(* Reconciler polls, is restarted and cleans its cache                     *)
(***************************************************************************)
EmptyStore(be) ==
    [be |-> be, ab |-> [u \in SysUsers |-> NoRow], txs |-> <<>>, fl |-> <<>>]

\* the state after construction: the given store, an empty cache
InitSystem(S) ==
    /\ backend = S.be
    /\ account_balances = S.ab
    /\ transactions = S.txs
    /\ ledger = S.fl
    /\ processedTxIds = {}
    /\ now = 0
    /\ pollLog = {}
    /\ pc = [p \in Procs |-> "idle"]
    /\ ptLocal = [p \in Procs |-> NoLocal]
    /\ ptCalls = 0
    /\ ptLog = {}
    /\ rfwp = [p \in Procs |-> NoRfwp]
    /\ run = NoRun
    /\ conv = NoConv

InitDep ==
    /\ \E be \in Backends : InitSystem(EmptyStore(be))
    /\ exch = [id \in DepositIds |-> NotListed]
    /\ coord = <<>>

NextDep ==
    \/ Poll
    \/ Start
    \/ Cleanup
    \/ Tick
    \/ \E d \in DepositIds : Exch_DepositReported(d)
    \/ \E d \in DepositIds : Exch_DepositImported(d)

SpecDep == InitDep /\ [][NextDep]_vars

\* the user a deposit belongs to
Owner(d) == FindUserByAddress(TxInfo(d).address)

OutOfWindow(id) == exch[id].created < now - LookbackWindow

\* C1: however often and in whatever order of statuses the Reconciler observes
\* a deposit, also after the cache was emptied by eviction or a restart, the
\* owning user's balance is credited with the deposit amount at most once.
C1_DepositCreditedAtMostOnce ==
    \A d \in DepositIds :
        Owner(d) # NoUser => GetUserBalance(StoreState, Owner(d)) <= TxInfo(d).amount

\* C5: a deposit the Reconciler handled as import-pending and fetched in a later
\* cycle as imported is credited to its owner exactly once; stated on the runs
\* in which the deposit has left the lookback window, after which no cycle
\* fetches it again.
C5_PendingThenImportedCredited ==
    \A d \in DepositIds :
        (/\ Owner(d) # NoUser
         /\ [id |-> d, status |-> "TRANSACTION_IMPORT_PENDING", handled |-> TRUE] \in pollLog
         /\ \E e \in pollLog : e.id = d /\ e.status = "TRANSACTION_IMPORTED"
         /\ OutOfWindow(d))
        => GetUserBalance(StoreState, Owner(d)) = TxInfo(d).amount

(***************************************************************************)
(* The Coordinator (cmd/withdrawal): one invocation per index of coord.    *)
(* Its steps are the calls main makes, each of them a store or Exchange    *)
(* call that other processes can interleave with.                          *)
(***************************************************************************)
\* the request of invocation i: generateIdempotencyKey gives every invocation
\* its own key; tx is the id the Exchange gives the withdrawal it creates
Request(i) ==
    CASE i = 1 -> [userId |-> Alice, key |-> "alice-k1", tx |-> "w1"]
      [] i = 2 -> [userId |-> Alice, key |-> "alice-k2", tx |-> "w2"]

NewInvocation(amount) == [pc |-> "start", amount |-> amount, balance |-> 0]

\* the page size of the history the Coordinator consults
HistoryLimit == 1000

\* a ledger transaction has the user's account as a source or a destination
TouchesUser(tx, userId) ==
    \E k \in 1..Len(tx.postings) :
        UserAccount(userId) \in {tx.postings[k].src, tx.postings[k].dst}

\* metadata "external_tx_id" of a ledger transaction equals id: the scripts set it
\* from the caller's id, except withdrawal_initiated, which does not set it, and a
\* native revert, which carries no script metadata
HasExternalTxId(tx, id) ==
    CASE tx.event \in {"withdrawal_initiated", "revert"} -> FALSE
      [] tx.event = "withdrawal_failed_reversal" -> tx.wref = id
      [] tx.event = "withdrawal_confirmed_direct" -> tx.ref = id \o "-direct"
      [] tx.event \in {"withdrawal_confirmed", "deposit_confirmed"} ->
            tx.ref = id \o "-confirmed"
      [] tx.event = "deposit_pending" -> tx.ref = id \o "-pending"
      [] OTHER -> tx.ref = id

\* GetTransactionHistory's TransactionType: "withdrawal" when event_type contains it
IsWithdrawalEvent(event) ==
    event \in {"withdrawal_initiated", "withdrawal_failed_reversal",
               "withdrawal_confirmed_direct", "withdrawal_confirmed",
               "withdrawal_pending_from_wallet",
               "withdrawal_failed_platform_round_trip"}

\* checkExistingWithdrawal: among the user's HistoryLimit newest transactions there
\* is one of type "withdrawal" whose ExternalTransactionId is the key
checkExistingWithdrawal(S, userId, idempotencyKey) ==
    IF S.be = Sqlite
    THEN \E j \in 1..Len(S.txs) :
            /\ S.txs[j].user = userId
            /\ Cardinality({k \in j..Len(S.txs) : S.txs[k].user = userId}) <= HistoryLimit
            /\ S.txs[j].ext = idempotencyKey
            /\ S.txs[j].type = "withdrawal"
    ELSE \E j \in 1..Len(S.fl) :
            /\ TouchesUser(S.fl[j], userId)
            /\ Cardinality({k \in j..Len(S.fl) : TouchesUser(S.fl[k], userId)})
                   <= HistoryLimit
            /\ HasExternalTxId(S.fl[j], idempotencyKey)
            /\ IsWithdrawalEvent(S.fl[j].event)

\* a balance check that also rejects an amount equal to the balance
C_VerifyBalanceStrict(i) ==
    /\ coord[i].pc = "start"
    /\ LET checkBalance == GetUserBalance(StoreState, Request(i).userId)
       IN coord' = [coord EXCEPT ![i] =
                       IF checkBalance <= coord[i].amount
                       THEN [@ EXCEPT !.pc = "fatal", !.balance = checkBalance]
                       ELSE [@ EXCEPT !.pc = "verified", !.balance = checkBalance]]
    /\ UNCHANGED <<dbVars, ptVars, run, conv, backend, ledger, processedTxIds, now, exch, pollLog>>

C_VerifyBalance(i) ==
    /\ coord[i].pc = "start"
    /\ LET checkBalance == GetUserBalance(StoreState, Request(i).userId)
       IN coord' = [coord EXCEPT ![i] =
                       IF checkBalance < coord[i].amount
                       THEN [@ EXCEPT !.pc = "fatal", !.balance = checkBalance]
                       ELSE [@ EXCEPT !.pc = "verified", !.balance = checkBalance]]
    /\ UNCHANGED <<dbVars, ptVars, run, conv, backend, ledger, processedTxIds, now, exch, pollLog>>

\* a main that goes on to executeWithdrawal whatever reserveFunds returned
C_ReserveFundsUnchecked(i) ==
    /\ coord[i].pc = "verified"
    /\ LET q == Request(i)
           r == ProcessWithdrawal(StoreState, q.userId, coord[i].amount, q.key)
       IN IF checkExistingWithdrawal(StoreState, q.userId, q.key)
          THEN /\ coord' = [coord EXCEPT ![i].pc = "done"]
               /\ UNCHANGED <<dbVars, ledger>>
          ELSE /\ SetStore(r.S)
               /\ coord' = [coord EXCEPT ![i].pc = "reserved"]
    /\ UNCHANGED <<ptVars, run, conv, backend, processedTxIds, now, exch, pollLog>>

\* checkExistingWithdrawal, then reserveFunds (W1 under the idempotency key)
C_ReserveFunds(i) ==
    /\ coord[i].pc = "verified"
    /\ LET q == Request(i)
           r == ProcessWithdrawal(StoreState, q.userId, coord[i].amount, q.key)
       IN IF checkExistingWithdrawal(StoreState, q.userId, q.key)
          THEN /\ coord' = [coord EXCEPT ![i].pc = "done"]
               /\ UNCHANGED <<dbVars, ledger>>
          ELSE /\ SetStore(r.S)
               /\ coord' = [coord EXCEPT ![i].pc = IF r.err = Nil THEN "reserved" ELSE "fatal"]
    /\ UNCHANGED <<ptVars, run, conv, backend, processedTxIds, now, exch, pollLog>>

\* executeWithdrawal: CreateWithdrawal succeeds, fails, or fails after the
\* Exchange has accepted the request
C_ExecuteWithdrawal(i) ==
    /\ coord[i].pc = "reserved"
    /\ \E outcome \in {"created", "failed", "failed after accept"} :
         /\ coord' = [coord EXCEPT ![i].pc = IF outcome = "created" THEN "done"
                                             ELSE "rollback"]
         /\ exch' = IF outcome = "failed" THEN exch
                    ELSE [exch EXCEPT ![Request(i).tx] =
                             [status |-> "TRANSACTION_CREATED", created |-> now,
                              amount |-> coord[i].amount]]
    /\ UNCHANGED <<dbVars, ptVars, run, conv, backend, ledger, processedTxIds, now, pollLog>>

\* rollbackWithdrawal: native revert, else the compensating credit
C_RollbackWithdrawal(i) ==
    /\ coord[i].pc = "rollback"
    /\ LET q == Request(i)
           rv == RevertTransaction(StoreState, q.key)
           rs == ReverseWithdrawal(rv.S, q.userId, coord[i].amount, q.key)
       IN IF rv.err = Nil
          THEN /\ SetStore(rv.S)
               /\ coord' = [coord EXCEPT ![i].pc = "rolled back"]
          ELSE /\ SetStore(rs.S)
               /\ coord' = [coord EXCEPT ![i].pc = IF rs.err = Nil THEN "rolled back"
                                                   ELSE "fatal"]
    /\ UNCHANGED <<ptVars, run, conv, backend, processedTxIds, now, exch, pollLog>>

\* a withdrawal that did not start in the Coordinator appears at the Exchange
Exch_ExternalWithdrawal(w) ==
    /\ w \in ExternalIds
    /\ exch[w].status = "none"
    /\ \E st \in {"TRANSACTION_CREATED", "OTHER_TRANSACTION_STATUS"} :
         exch' = [exch EXCEPT ![w] = [status |-> st, created |-> now,
                                       amount |-> TxInfo(w).amount]]
    /\ UNCHANGED <<dbVars, ptVars, run, conv, backend, ledger, processedTxIds, now, coord, pollLog>>

\* the Exchange moves a withdrawal on; done and failed are final
Exch_WithdrawalProgress(w) ==
    /\ exch[w].status \in {"TRANSACTION_CREATED", "OTHER_TRANSACTION_STATUS"}
    /\ \E st \in {"OTHER_TRANSACTION_STATUS", "TRANSACTION_DONE", "TRANSACTION_FAILED"} :
         /\ st # exch[w].status
         /\ exch' = [exch EXCEPT ![w].status = st]
    /\ UNCHANGED <<dbVars, ptVars, run, conv, backend, ledger, processedTxIds, now, coord, pollLog>>

(***************************************************************************)
(* Specification of the withdrawal path: Alice holds a funded balance, one *)
(* Coordinator invocation withdraws from it, the Exchange also reports a   *)
(* withdrawal that is not hers, the Reconciler polls and is restarted; all  *)
(* of it inside one lookback window, so that every cycle fetches every     *)
(* listed withdrawal                                                       *)
(***************************************************************************)
Funding == [id |-> "d0", amount |-> 5]

FundedStore(be) == ProcessDeposit(EmptyStore(be), AliceAddress, Funding.amount, Funding.id).S

InitWd ==
    /\ \E be \in Backends : InitSystem(FundedStore(be))
    /\ exch = [id \in {"w1", "w9"} |-> NotListed]
    /\ coord = [i \in {1} |-> NewInvocation(TxInfo("w1").amount)]

NextWd ==
    \/ Poll
    \/ Start
    \/ C_VerifyBalance(1)
    \/ C_ReserveFunds(1)
    \/ C_ExecuteWithdrawal(1)
    \/ C_RollbackWithdrawal(1)
    \/ Exch_ExternalWithdrawal("w9")
    \/ \E w \in {"w1", "w9"} : Exch_WithdrawalProgress(w)

SpecWd == InitWd /\ [][NextWd]_vars

(***************************************************************************)
(* Properties of the withdrawal path                                       *)
(***************************************************************************)
AliceBalance == GetUserBalance(StoreState, Alice)

\* a cycle dispatched the withdrawal in its current, final status and marked it
Reconciled(w) ==
    /\ exch[w].status \in {"TRANSACTION_DONE", "TRANSACTION_FAILED"}
    /\ [id |-> w, status |-> exch[w].status, handled |-> TRUE] \in pollLog
    /\ isTransactionProcessed(Listener, w)

\* the records of one user-initiated withdrawal, by the operation that wrote them
ReserveRecords(q) ==
    IF backend = Sqlite
    THEN {j \in 1..Len(transactions) :
             /\ transactions[j].user = q.userId
             /\ transactions[j].type = "withdrawal"
             /\ transactions[j].ext \in {q.key, q.tx}}
    ELSE {j \in 1..Len(ledger) :
             /\ ledger[j].event = "withdrawal_initiated"
             /\ ledger[j].ref \in {q.key, q.tx}}

SettleRecords(q) ==
    {j \in 1..Len(ledger) : ledger[j].ref \in {q.tx \o "-confirmed", q.tx \o "-direct"}}

ReverseRecords(q) ==
    IF backend = Sqlite
    THEN {j \in 1..Len(transactions) : transactions[j].ext = ReversalId(q.key)}
    ELSE {j \in 1..Len(ledger) :
             \/ ledger[j].ref = ReversalId(q.key)
             \/ ledger[j].wref = q.key /\ ledger[j].reverted}

\* C3: a withdrawal reserved under key k and then observed by the Reconciler in
\* non-terminal and done statuses has debited the user exactly once: while the
\* withdrawal has not failed, the balance is the funded amount less the
\* withdrawal amount.
C3_DebitedExactlyOnce ==
    (coord[1].pc = "done" /\ exch["w1"].status # "TRANSACTION_FAILED")
        => AliceBalance = Funding.amount - coord[1].amount

\* C2: in a final state (the Reconciler has handled the withdrawal's final
\* status, or the Coordinator rolled back a withdrawal the Exchange never
\* listed) the withdrawal has exactly one reserve record, never both a settle
\* and a reverse and never two of either, and exactly one of them where the
\* backend writes both kinds (the relational backend writes no settle record:
\* there a failed or rolled back withdrawal has exactly one reverse record).
C2_ThreePhaseIdentity ==
    LET q == Request(1)
        final == \/ Reconciled(q.tx) /\ coord[1].pc \in {"done", "rolled back"}
                 \/ coord[1].pc = "rolled back" /\ exch[q.tx].status = "none"
        closing == Cardinality(SettleRecords(q)) + Cardinality(ReverseRecords(q))
    IN final =>
         /\ Cardinality(ReserveRecords(q)) = 1
         /\ closing <= 1
         /\ backend = Formance => closing = 1
         /\ (backend = Sqlite /\ (coord[1].pc = "rolled back"
                                  \/ exch[q.tx].status = "TRANSACTION_FAILED"))
                => closing = 1

\* C4: terminal-failure observations of a withdrawal reserved under key k credit
\* the reserved amount back at most once, and once the Reconciler has handled
\* the failure the user's balance equals its value before the reservation.
C4_CreditBackOnce ==
    /\ AliceBalance <= Funding.amount
    /\ (exch["w1"].status = "TRANSACTION_FAILED" /\ Reconciled("w1"))
          => AliceBalance = Funding.amount

\* C10: the Reconciler never applies both W3 (reference {tx_id}-confirmed) and
\* W4 (reference {tx_id}-direct) for the same withdrawal.
C10_NeverBothW3AndW4 ==
    \A w \in DOMAIN exch :
        ~(HasReference(ledger, w \o "-confirmed") /\ HasReference(ledger, w \o "-direct"))

(***************************************************************************)
(* Specification of concurrent Coordinator invocations: two invocations    *)
(* for Alice and the same asset, each for an amount her funded balance     *)
(* covers alone but not together with the other                            *)
(***************************************************************************)
Invocations == {1, 2}

\* the amounts an invocation can ask for: each at most Funding.amount, any two
\* of them more than Funding.amount
CoordAmounts == {3, 4}

InitCoord ==
    /\ \E be \in Backends : InitSystem(FundedStore(be))
    /\ exch = [id \in {Request(i).tx : i \in Invocations} |-> NotListed]
    /\ coord \in [Invocations -> {NewInvocation(a) : a \in CoordAmounts}]

NextCoord ==
    \/ \E i \in Invocations : C_VerifyBalance(i)
    \/ \E i \in Invocations : C_ReserveFunds(i)
    \/ \E i \in Invocations : C_ExecuteWithdrawal(i)
    \/ \E i \in Invocations : C_RollbackWithdrawal(i)

SpecCoord == InitCoord /\ [][NextCoord]_vars

\* the invocations whose reservation is committed and not rolled back
Reserving == {i \in Invocations : coord[i].pc \in {"reserved", "rollback", "done"}}

\* C8: of two concurrent Coordinator invocations whose amounts each do not
\* exceed the balance but together do, at most one holds a committed
\* reservation at any time, and the balance never falls below zero.
C8_AtMostOneReservation ==
    /\ Cardinality(Reserving) <= 1
    /\ AliceBalance >= 0

(***************************************************************************)
(* Properties of the store's queries and operations, checked on the states *)
(* the withdrawal path reaches                                             *)
(***************************************************************************)
\* the references the Reconciler asks HasPendingWithdrawal about
WithdrawalRefs == UNION {{w, TxInfo(w).key} : w \in DOMAIN exch}

PendingEvents == {"withdrawal_initiated", "withdrawal_pending_from_wallet"}

\* a W1 or W2 record with the reference exists and is not reverted (a relational
\* row keeps only its type and external id)
UnrevertedPending(ref) ==
    IF backend = Sqlite
    THEN \E j \in 1..Len(transactions) :
            transactions[j].type = "withdrawal" /\ transactions[j].ext = ref
    ELSE \E j \in 1..Len(ledger) :
            /\ ledger[j].event \in PendingEvents
            /\ ref \in {ledger[j].ref, ledger[j].wref}
            /\ ~ledger[j].reverted

\* C11: HasPendingWithdrawal(ref) is true only if an unreverted W1 or W2 with
\* that reference exists; no settlement, direct debit or reversal carrying the
\* reference makes it true.
C11_HasPendingOnlyForPending ==
    \A ref \in WithdrawalRefs :
        HasPendingWithdrawal(StoreState, ref) => UnrevertedPending(ref)

\* C12: when the Exchange submission fails after the W1 reservation and the
\* Exchange holds nothing for the idempotency key, the Coordinator's reversal
\* leaves the balance at its value before the invocation, with exactly one
\* reverse applied: the native revert of the key or one compensating credit
\* under {key}-reversal, never both.
C12_RollbackRestoresBalance ==
    (coord[1].pc = "rolled back" /\ exch[Request(1).tx].status = "none")
        => /\ AliceBalance = Funding.amount
           /\ Cardinality(ReverseRecords(Request(1))) = 1
           /\ Cardinality(ReserveRecords(Request(1))) = 1

C12_Witness ==
    /\ coord[1].pc = "rolled back"
    /\ exch[Request(1).tx].status = "none"
    /\ ReverseRecords(Request(1)) # {}

(***************************************************************************)
(* Specification of the Ledger Store: a client applies the mutating        *)
(* operations of store.LedgerStore one after the other, in any order and   *)
(* with any arguments, to an empty store of either backend                 *)
(***************************************************************************)
MaxStoreRecords == 3

StIds == {"t1", "t2"}
StAmounts == {2}
StAddresses == {AliceAddress, "0xB0B"}

\* a call of one operation: [op, address, userId, amount, id, wref]
StoreCalls(op) ==
    {[op |-> op, address |-> ad, userId |-> Alice, amount |-> am, id |-> id, wref |-> wr] :
        ad \in (IF op \in {"ConfirmDeposit", "ProcessDeposit"} THEN StAddresses ELSE {""}),
        am \in (IF op = "RevertTransaction" THEN {0} ELSE StAmounts),
        id \in StIds,
        wr \in (IF op \in {"ConfirmWithdrawal", "ConfirmWithdrawalDirect"} THEN StIds ELSE {""})}

StoreOps ==
    {"ProcessDepositPending", "ConfirmDeposit", "ProcessDeposit", "ProcessWithdrawal",
     "ProcessWithdrawalFromWallet", "ConfirmWithdrawal", "ConfirmWithdrawalDirect",
     "ReverseWithdrawal", "RecordFailedWithdrawalPlatform", "RevertTransaction"}

\* the call made on store S
Apply(S, c) ==
    CASE c.op = "ProcessDepositPending" -> ProcessDepositPending(S, c.amount, c.id)
      [] c.op = "ConfirmDeposit" -> ConfirmDeposit(S, c.address, c.amount, c.id)
      [] c.op = "ProcessDeposit" -> ProcessDeposit(S, c.address, c.amount, c.id)
      [] c.op = "ProcessWithdrawal" -> ProcessWithdrawal(S, c.userId, c.amount, c.id)
      [] c.op = "ProcessWithdrawalFromWallet" -> ProcessWithdrawalFromWallet(S, c.amount, c.id)
      [] c.op = "ConfirmWithdrawal" -> ConfirmWithdrawal(S, c.amount, c.wref, c.id)
      [] c.op = "ConfirmWithdrawalDirect" ->
            ConfirmWithdrawalDirect(S, c.userId, c.amount, c.id, c.wref)
      [] c.op = "ReverseWithdrawal" -> ReverseWithdrawal(S, c.userId, c.amount, c.id)
      [] c.op = "RecordFailedWithdrawalPlatform" ->
            RecordFailedWithdrawalPlatform(S, c.amount, c.id)
      [] c.op = "RevertTransaction" -> RevertTransaction(S, c.id)

StoreSize == Len(transactions) + Len(ledger)

St_Call(op) ==
    /\ StoreSize < MaxStoreRecords
    /\ \E c \in StoreCalls(op) : SetStore(Apply(StoreState, c).S)
    /\ UNCHANGED <<ptVars, run, conv, backend, processedTxIds, now, exch, coord, pollLog>>

InitStore ==
    /\ \E be \in Backends : InitSystem(EmptyStore(be))
    /\ exch = <<>>
    /\ coord = <<>>

NextStore ==
    \/ St_Call("ProcessDepositPending")
    \/ St_Call("ConfirmDeposit")
    \/ St_Call("ProcessDeposit")
    \/ St_Call("ProcessWithdrawal")
    \/ St_Call("ProcessWithdrawalFromWallet")
    \/ St_Call("ConfirmWithdrawal")
    \/ St_Call("ConfirmWithdrawalDirect")
    \/ St_Call("ReverseWithdrawal")
    \/ St_Call("RecordFailedWithdrawalPlatform")
    \/ St_Call("RevertTransaction")

SpecStore == InitStore /\ [][NextStore]_vars

\* every balance the store holds: the relational balance rows, or the balance of
\* every account of the double-entry ledger
StoreAccounts ==
    {WalletAccount, DepositsPendingAccount, WithdrawalsPendingAccount}
        \cup {UserAccount(u) : u \in SysUsers}

Balances(S) ==
    IF S.be = Sqlite THEN [a \in SysUsers |-> S.ab[a].balance]
    ELSE [a \in StoreAccounts |-> volumeBalance(S.fl, a)]

\* the external id or ledger reference under which a call records its effect
RecordKey(S, c) ==
    LET suffix ==
          CASE c.op = "ProcessDepositPending" -> "-pending"
            [] c.op \in {"ConfirmDeposit", "ConfirmWithdrawal"} ->
                  IF S.be = Sqlite THEN "" ELSE "-confirmed"
            [] c.op = "ConfirmWithdrawalDirect" -> IF S.be = Sqlite THEN "" ELSE "-direct"
            [] c.op = "ReverseWithdrawal" -> "-reversal"
            [] OTHER -> ""
    IN c.id \o suffix

RecordExists(S, c) ==
    IF S.be = Sqlite THEN ExistsExternalId(S.txs, RecordKey(S, c))
    ELSE HasReference(S.fl, RecordKey(S, c))

DuplicateOrNil == {Nil, ErrDuplicateTransaction, StoreErrDuplicateTransaction}

ExternalIdOps == StoreOps \ {"RevertTransaction"}

ReversalRecorded(S, k) ==
    IF S.be = Sqlite THEN ExistsExternalId(S.txs, ReversalId(k))
    ELSE HasReference(S.fl, ReversalId(k))

LimitAmounts == {Funding.amount - 1, Funding.amount, Funding.amount + 1}

InitLimit ==
    /\ \E be \in Backends : InitSystem(FundedStore(be))
    /\ exch = [id \in {"w1", "w9"} |-> NotListed]
    /\ coord \in [{1} -> {NewInvocation(a) : a \in LimitAmounts}]

SpecLimit == InitLimit /\ [][NextWd]_vars

\* C16: a Coordinator withdrawal for exactly the balance passes the balance
\* check and is reserved; one for more than the balance fails at the balance
\* check, before any reservation and any submission to the Exchange, and the
\* balance is unchanged.
C16_ExactBalancePasses ==
    /\ (coord[1].amount = Funding.amount /\ coord[1].pc \notin {"start", "verified"})
          => ReserveRecords(Request(1)) # {}
    /\ coord[1].amount > Funding.amount
          => /\ coord[1].pc \in {"start", "fatal"}
             /\ AliceBalance = Funding.amount
             /\ ReserveRecords(Request(1)) = {}
             /\ exch[Request(1).tx].status = "none"

C16_Witness ==
    /\ coord[1].amount = Funding.amount
    /\ coord[1].pc = "reserved"
    /\ AliceBalance = 0

(***************************************************************************)
(* Specification of withdrawals the Reconciler has to attribute: the       *)
(* Exchange reports withdrawals that did not start in the Coordinator: w5  *)
(* to an address registered to Alice under a key that matches no user, w6  *)
(* under a key with Alice's prefix for which the ledger holds no           *)
(* reservation; the Reconciler polls and is restarted                      *)
(***************************************************************************)
AttrIds == {"w5", "w6"}

InitAttr ==
    /\ \E be \in Backends : InitSystem(FundedStore(be))
    /\ exch = [id \in AttrIds |-> NotListed]
    /\ coord = <<>>

NextAttr ==
    \/ Poll
    \/ Start
    \/ \E w \in AttrIds : Exch_ExternalWithdrawal(w)
    \/ \E w \in AttrIds : Exch_WithdrawalProgress(w)

SpecAttr == InitAttr /\ [][NextAttr]_vars

\* the users the direct-debit records (W4) of withdrawal w debit
DirectDebitUsers(w) ==
    IF backend = Sqlite
    THEN {transactions[j].user : j \in {i \in 1..Len(transactions) :
                                          /\ transactions[i].ext = w
                                          /\ transactions[i].type = "withdrawal"}}
    ELSE {u \in SysUsers : \E j \in 1..Len(ledger) :
                               /\ ledger[j].ref = w \o "-direct"
                               /\ ledger[j].postings[1].src = UserAccount(u)}

\* the store holds a platform-level failure record (W6) of withdrawal w
PlatformFailureRecorded(w) ==
    IF backend = Sqlite
    THEN \E j \in 1..Len(transactions) :
            /\ transactions[j].user = PlatformUser
            /\ transactions[j].ext = w \o "-failed-reversal"
    ELSE \E j \in 1..Len(ledger) :
            /\ ledger[j].ref = w
            /\ ledger[j].event = "withdrawal_failed_platform_round_trip"

\* C17: a done or terminally failed withdrawal whose destination address is
\* registered to a user is attributed to that user by the Reconciler: its
\* direct debit is taken from that user, and its failure is not recorded as a
\* platform-level failure of an unmatched withdrawal.
C17_DestinationAddressFirst ==
    \A w \in AttrIds :
        (Owner(w) # NoUser /\ Reconciled(w))
            => /\ DirectDebitUsers(w) \subseteq {Owner(w)}
               /\ ~PlatformFailureRecorded(w)

\* the balance a user holds when the attribution runs start
FundedBalance(u) == IF u = Alice THEN Funding.amount ELSE 0

\* C18: a failure-reversal credit is applied only for a withdrawal that has a
\* W1 reservation in the ledger: in runs without any reservation and without
\* deposits, no terminal-failure event raises a user's balance above its
\* initial value.
C18_NoCreditWithoutReservation ==
    \A u \in SysUsers : GetUserBalance(StoreState, u) <= FundedBalance(u)

(***************************************************************************)
(* Specification of RecordFailedWithdrawalPlatform: one Reconciler task    *)
(* records a terminal failure that matches no user while another task      *)
(* writes the platform's row (the wallets of a cycle are polled by         *)
(* parallel tasks sharing the store)                                       *)
(***************************************************************************)
RFId == "t1"
RFAmount == 2
RFOtherId == "t2"
RFOtherAmount == 1

\* the result ProcessTransaction returned to the call numbered n
ResultOf(n) == (CHOOSE r \in ptLog : r.call = n).result

\* err != nil && !errors.Is(err, store.ErrDuplicateTransaction)
ReturnsError(res) == res # Ok /\ ~IsStoreDuplicate(res)

\* a caller enters ProcessTransaction with the given parameters
EnterPT(p, user, type, amount, ext) ==
    /\ pc[p] = "idle"
    /\ ptCalls < MaxCalls
    /\ ptLocal' = [ptLocal EXCEPT ![p] =
           [NoLocal EXCEPT !.call = ptCalls + 1, !.user = user, !.amount = amount,
                           !.ext = ext, !.type = type]]
    /\ pc' = [pc EXCEPT ![p] = "checkdup"]
    /\ ptCalls' = ptCalls + 1

\* relational: step 1, the synthetic withdrawal
RF_Enter(p) ==
    /\ backend = Sqlite
    /\ \A q \in Procs : rfwp[q].pos = "none"
    /\ EnterPT(p, PlatformUser, "withdrawal", 0 - RFAmount, RFId)
    /\ rfwp' = [rfwp EXCEPT ![p] = [pos |-> "step1", call |-> ptCalls + 1]]
    /\ UNCHANGED <<dbVars, ptLog, sysVars>>

\* relational: step 1 returned; an error is returned, otherwise step 2, the synthetic reversal
RF_Step1Returned(p) ==
    /\ rfwp[p].pos = "step1"
    /\ pc[p] = "idle"
    /\ IF ReturnsError(ResultOf(rfwp[p].call))
       THEN /\ rfwp' = [rfwp EXCEPT ![p].pos = "returned error"]
            /\ UNCHANGED <<pc, ptLocal, ptCalls>>
       ELSE /\ EnterPT(p, PlatformUser, "deposit", RFAmount, RFId \o "-failed-reversal")
            /\ rfwp' = [rfwp EXCEPT ![p] = [pos |-> "step2", call |-> ptCalls + 1]]
    /\ UNCHANGED <<dbVars, ptLog, sysVars>>

\* relational: step 2 returned
RF_Step2Returned(p) ==
    /\ rfwp[p].pos = "step2"
    /\ pc[p] = "idle"
    /\ rfwp' = [rfwp EXCEPT ![p].pos =
           IF ReturnsError(ResultOf(rfwp[p].call)) THEN "returned error" ELSE "returned nil"]
    /\ UNCHANGED <<dbVars, pc, ptLocal, ptCalls, ptLog, sysVars>>

\* relational: another task enters ProcessWithdrawalFromWallet
RF_OtherWrite(p) ==
    /\ backend = Sqlite
    /\ rfwp[p].pos = "none"
    /\ ~ExistsExternalId(transactions, RFOtherId)
    /\ EnterPT(p, PlatformUser, "withdrawal", 0 - RFOtherAmount, RFOtherId)
    /\ UNCHANGED <<dbVars, ptLog, rfwp, sysVars>>

\* double-entry: the whole call, one ledger transaction
RF_Formance(p) ==
    /\ backend = Formance
    /\ \A q \in Procs : rfwp[q].pos = "none"
    /\ LET r == RecordFailedWithdrawalPlatform(StoreState, RFAmount, RFId)
       IN /\ SetStore(r.S)
          /\ rfwp' = [rfwp EXCEPT ![p].pos =
                 IF r.err = Nil THEN "returned nil" ELSE "returned error"]
    /\ UNCHANGED <<pc, ptLocal, ptCalls, ptLog, backend, processedTxIds, now, exch, coord,
                   pollLog, run, conv>>

\* double-entry: another task records a withdrawal or a deposit of the wallet
RF_OtherFormance ==
    /\ backend = Formance
    /\ Len(ledger) < MaxCalls
    /\ \E id \in {RFOtherId, RFId}, dep \in BOOLEAN :
         SetStore(IF dep THEN ProcessDeposit(StoreState, "0xB0B", RFOtherAmount, id).S
                  ELSE ProcessWithdrawalFromWallet(StoreState, RFOtherAmount, id).S)
    /\ UNCHANGED <<ptVars, run, conv, backend, processedTxIds, now, exch, coord, pollLog>>

InitRF ==
    /\ \E be \in Backends : InitSystem(EmptyStore(be))
    /\ exch = <<>>
    /\ coord = <<>>

NextRF ==
    \/ \E p \in Procs :
        \/ RF_Enter(p)
        \/ RF_Step1Returned(p)
        \/ RF_Step2Returned(p)
        \/ RF_OtherWrite(p)
        \/ PT_CheckDuplicate(p)
        \/ PT_ReadBalance(p)
        \/ PT_WriteCommit(p)
        \/ RF_Formance(p)
    \/ RF_OtherFormance

SpecRF == InitRF /\ [][NextRF]_vars

\* the records of the store that the call did not write
IsOther(row) == row.ext \notin {RFId, RFId \o "-failed-reversal"}
IsOtherTx(tx) == tx.event # "withdrawal_failed_platform_round_trip"
OtherBalances ==
    IF backend = Sqlite
    THEN [a \in SysUsers |-> SumAmounts(SelectSeq(transactions, IsOther), a)]
    ELSE [a \in StoreAccounts |-> volumeBalance(SelectSeq(ledger, IsOtherTx), a)]

RFReturned == \E p \in Procs : rfwp[p].pos \in {"returned nil", "returned error"}

\* C19: once RecordFailedWithdrawalPlatform has returned, with success or with an
\* error, on either backend, every account balance is what it is without the call:
\* the balances equal those the records of the other writers alone produce.
C19_PlatformFailureNetZero ==
    RFReturned => Balances(StoreState) = OtherBalances

(***************************************************************************)
(* Unattributed deposits on the relational backend                         *)
(***************************************************************************)
\* the history record of a cycle that dispatched deposit d with status imported
ImportedHandled(d) == [id |-> d, status |-> "TRANSACTION_IMPORTED", handled |-> TRUE]

\* C20: on the relational backend, the cycle that first dispatches an imported
\* deposit to an address absent from the address index credits no one and leaves
\* the deposit's transaction id in the correlation cache (so that the next cycle
\* skips it without a Ledger Store call).
C20_UnknownAddressMarkedProcessed ==
    [][\A d \in DepositIds :
          (/\ backend = Sqlite
           /\ Owner(d) = NoUser
           /\ ImportedHandled(d) \notin pollLog
           /\ ImportedHandled(d) \in pollLog')
          => /\ \E e \in processedTxIds' : e.id = d
             /\ UNCHANGED dbVars]_vars

(***************************************************************************)
(* Duplicates reported to the Reconciler                                   *)
(***************************************************************************)
\* the error wraps a duplicate sentinel (the relational one or the store's)
IsDuplicateError(err) == err \in {ErrDuplicateTransaction, StoreErrDuplicateTransaction}

\* one of the Ledger Store calls of processDepositConfirmed reports a duplicate
DuplicateReported(S, tx) ==
    LET c == ConfirmDeposit(S, tx.address, tx.amount, tx.id)
    IN \/ IsDuplicateError(c.err)
       \/ /\ c.err # Nil
          /\ IsDuplicateError(ProcessDeposit(c.S, tx.address, tx.amount, tx.id).err)

\* C21: whenever a Ledger Store call made while dispatching an imported deposit that
\* is not in the cache reports a duplicate external id, on either backend, the
\* dispatch leaves the transaction id in the correlation cache.
C21_DuplicateMarkedProcessed ==
    \A d \in DepositIds :
        (/\ exch[d].status = "TRANSACTION_IMPORTED"
         /\ ~isTransactionProcessed(Listener, d)
         /\ DuplicateReported(StoreState, PrimeTransaction(d)))
        => isTransactionProcessed(processTransaction(Listener, PrimeTransaction(d), now), d)

(***************************************************************************)
(* Replayed pages                                                          *)
(***************************************************************************)
\* the page the Exchange returns now
Page == Fetched(now - LookbackWindow)

\* every transaction of the page was returned, with its present status, to an
\* earlier completed cycle
Replayed ==
    /\ Page # {}
    /\ \A id \in Page : \E e \in pollLog : e.id = id /\ e.status = exch[id].status

\* the dispatch of a deposit reaches a Ledger Store call
MakesStoreCall(tx) ==
    /\ tx.type = "DEPOSIT"
    /\ tx.status \in {"TRANSACTION_IMPORT_PENDING", "TRANSACTION_IMPORTED"}
    /\ tx.amount > 0
    /\ tx.status = "TRANSACTION_IMPORTED" => tx.address # ""

\* C22: a polling cycle whose page holds only transactions already returned to an
\* earlier completed cycle makes no Ledger Store call (every transaction is skipped
\* or dispatched without a call) and leaves the ledger unchanged.
C22_ReplayIsNoOp ==
    Replayed =>
        /\ \A id \in Page :
              isTransactionProcessed(Listener, id) \/ ~MakesStoreCall(PrimeTransaction(id))
        /\ \A o \in Orderings(Page) :
              pollWallet(Listener, [i \in DOMAIN o |-> PrimeTransaction(o[i])], now).S
                  = StoreState

(***************************************************************************)
(* Specification of the listener process: main, Start with the recovery    *)
(* sweep, pollLoop with one task per wallet, cleanupLoop, Stop and the     *)
(* bounded shutdown                                                        *)
(***************************************************************************)
MaxWallets == 3
MaxCycles == 2

LifeIds == {"d1", "d2", "d3"}

\* the wallet a transaction belongs to
WalletOf(id) == IF id = "d3" THEN 2 ELSE 1

Wallets == 1..run.n

\* fetchWalletTransactions(wallet, since)
FetchedOf(w) == {id \in Fetched(now - LookbackWindow) : WalletOf(id) = w}

\* the loop of pollWallet and of recoverWalletTransactions over one wallet's page
PollOne(w) ==
    \E o \in Orderings(FetchedOf(w)) :
        LET L2 == pollWallet(Listener, [i \in DOMAIN o |-> PrimeTransaction(o[i])], now)
        IN /\ SetStore(L2.S)
           /\ processedTxIds' = L2.cache

\* len(failedWallets) > len(d.monitoredWallets)/2
MajorityFailedLax(failed, total) == failed >= total \div 2
MajorityFailed(failed, total) == failed > total \div 2

\* wg.Wait()
JoinedNever(inflight) == TRUE
Joined(inflight) == \A w \in DOMAIN inflight : inflight[w] = 0

\* case <-shutdownCtx.Done()
TimedOutNever(r) == FALSE
TimedOut(r) == r.timer

\* the process has not exited
Alive == run.main \in {"running", "shutdown"}

lifeFrame == <<ptVars, backend, now, exch, coord, pollLog, conv>>
storeFrame == <<dbVars, ledger, processedTxIds>>

\* Start: LoadMonitoredWallets, then the check for an empty wallet list
Start_Load ==
    /\ Alive /\ run.start = "init"
    /\ run' = [run EXCEPT !.start = IF run.n = 0 THEN "failed" ELSE "recovering"]
    /\ UNCHANGED <<lifeFrame, storeFrame>>

\* performStartupRecovery: GetMostRecentTransactionTime fails
Start_RecentTimeFails ==
    /\ Alive /\ run.start = "recovering" /\ run.swept = 0
    /\ run' = [run EXCEPT !.start = "failed"]
    /\ UNCHANGED <<lifeFrame, storeFrame>>

\* performStartupRecovery: the next wallet of the sweep, its fetch failing or not
Start_Recover ==
    /\ Alive /\ run.start = "recovering" /\ run.swept < run.n
    /\ LET w == run.swept + 1 IN
       \/ /\ run' = [run EXCEPT !.swept = w, !.failed = @ \cup {w}]
          /\ UNCHANGED storeFrame
       \/ /\ run' = [run EXCEPT !.swept = w, !.polled = @ \cup {w}]
          /\ PollOne(w)
    /\ UNCHANGED lifeFrame

\* the loop over d.monitoredWallets has ended
SweepDoneEarly(r) == TRUE
SweepDone(r) == r.swept = r.n

\* performStartupRecovery returns; on success Start spawns pollLoop and cleanupLoop
Start_Finish ==
    /\ Alive /\ run.start = "recovering" /\ SweepDone(run)
    /\ run' = IF MajorityFailed(Cardinality(run.failed), run.n)
              THEN [run EXCEPT !.start = "failed"]
              ELSE [run EXCEPT !.start = "started", !.loop = "enter", !.cleanup = "running"]
    /\ UNCHANGED <<lifeFrame, storeFrame>>

\* pollWallets: one task per monitored wallet
Loop_PollWallets ==
    /\ Alive /\ run.loop \in {"enter", "tick"}
    /\ run' = [run EXCEPT !.loop = "wait",
                          !.inflight = [w \in Wallets |-> run.inflight[w] + 1]]
    /\ UNCHANGED <<lifeFrame, storeFrame>>

\* a task: pollWallet, its fetch failing or not
Task_Poll(w) ==
    /\ Alive /\ run.inflight[w] > 0
    /\ \/ /\ run' = [run EXCEPT !.inflight[w] = @ - 1]
          /\ UNCHANGED storeFrame
       \/ /\ run' = [run EXCEPT !.inflight[w] = @ - 1, !.polled = @ \cup {w}]
          /\ PollOne(w)
    /\ UNCHANGED lifeFrame

\* pollWallets returns to the select of pollLoop
Loop_Join ==
    /\ Alive /\ run.loop = "wait"
    /\ Joined(run.inflight)
    /\ run' = [run EXCEPT !.loop = "select", !.cycles = @ + 1]
    /\ UNCHANGED <<lifeFrame, storeFrame>>

\* select: case <-ticker.C
Loop_Tick ==
    /\ Alive /\ run.loop = "select" /\ run.cycles < MaxCycles
    /\ run' = [run EXCEPT !.loop = "tick"]
    /\ UNCHANGED <<lifeFrame, storeFrame>>

\* select: case <-d.stopChan, then the deferred close(d.doneChan)
Loop_Return ==
    /\ Alive /\ run.loop = "select" /\ run.stopChan
    /\ run' = [run EXCEPT !.loop = "returned", !.doneChan = TRUE]
    /\ UNCHANGED <<lifeFrame, storeFrame>>

\* cleanupLoop: case <-d.stopChan
Cleanup_Return ==
    /\ Alive /\ run.cleanup = "running" /\ run.stopChan
    /\ run' = [run EXCEPT !.cleanup = "returned"]
    /\ UNCHANGED <<lifeFrame, storeFrame>>

\* main: no listener started
Main_Fatal ==
    /\ run.main = "running" /\ run.start = "failed"
    /\ run' = [run EXCEPT !.main = "exited fatal"]
    /\ UNCHANGED <<lifeFrame, storeFrame>>

\* main: the shutdown signal; the goroutine calling Stop is spawned
Main_Signal ==
    /\ run.main = "running" /\ run.start = "started"
    /\ run' = [run EXCEPT !.main = "shutdown", !.stop = "called"]
    /\ UNCHANGED <<lifeFrame, storeFrame>>

\* Stop: close(d.stopChan)
Stop_Close ==
    /\ Alive /\ run.stop = "called"
    /\ run' = [run EXCEPT !.stop = "waiting", !.stopChan = TRUE]
    /\ UNCHANGED <<lifeFrame, storeFrame>>

\* Stop: <-d.doneChan
Stop_Return ==
    /\ Alive /\ run.stop = "waiting" /\ run.doneChan
    /\ run' = [run EXCEPT !.stop = "returned"]
    /\ UNCHANGED <<lifeFrame, storeFrame>>

\* the shutdown context reaches its deadline
Timer_Fires ==
    /\ run.main = "shutdown" /\ ~run.timer
    /\ run' = [run EXCEPT !.timer = TRUE]
    /\ UNCHANGED <<lifeFrame, storeFrame>>

\* main: select on done and on shutdownCtx.Done(), then the process exits
Main_Exit ==
    /\ run.main = "shutdown"
    /\ \/ /\ run.stop = "returned"
          /\ run' = [run EXCEPT !.main = "exited graceful"]
       \/ /\ TimedOut(run)
          /\ run' = [run EXCEPT !.main = "exited forced"]
    /\ UNCHANGED <<lifeFrame, storeFrame>>

InitLife ==
    /\ backend \in Backends
    /\ account_balances = EmptyStore(backend).ab
    /\ transactions = <<>>
    /\ ledger = <<>>
    /\ processedTxIds = {}
    /\ now = 0
    /\ pollLog = {}
    /\ pc = [p \in Procs |-> "idle"]
    /\ ptLocal = [p \in Procs |-> NoLocal]
    /\ ptCalls = 0
    /\ ptLog = {}
    /\ rfwp = [p \in Procs |-> NoRfwp]
    /\ exch = [id \in LifeIds |->
                 [status |-> "TRANSACTION_IMPORTED", created |-> 0,
                  amount |-> TxInfo(id).amount]]
    /\ coord = <<>>
    /\ conv = NoConv
    /\ \E n \in 0..MaxWallets :
         run = [main |-> "running", start |-> "init", n |-> n, swept |-> 0, failed |-> {},
                polled |-> {}, loop |-> "none", inflight |-> [w \in 1..n |-> 0],
                cycles |-> 0, cleanup |-> "none", stopChan |-> FALSE, doneChan |-> FALSE,
                stop |-> "none", timer |-> FALSE]

NextLife ==
    \/ Start_Load
    \/ Start_RecentTimeFails
    \/ Start_Recover
    \/ Start_Finish
    \/ Loop_PollWallets
    \/ \E w \in Wallets : Task_Poll(w)
    \/ Loop_Join
    \/ Loop_Tick
    \/ Loop_Return
    \/ Cleanup_Return
    \/ Main_Fatal
    \/ Main_Signal
    \/ Stop_Close
    \/ Stop_Return
    \/ Timer_Fires
    \/ Main_Exit

SpecLife == InitLife /\ [][NextLife]_vars

(***************************************************************************)
(* Properties of the listener process                                      *)
(***************************************************************************)
\* a polling or cleanup task exists or has existed
LoopsStarted ==
    \/ run.loop # "none"
    \/ run.cleanup # "none"
    \/ run.cycles > 0
    \/ \E w \in Wallets : run.inflight[w] > 0

\* C23: a polling loop, a poll task or the cleanup loop exists only after Start's
\* recovery sweep has gone over every monitored wallet and has succeeded (at most
\* half of the wallets failed); while the sweep runs there is none.
C23_SweepBeforeSteadyState ==
    LoopsStarted =>
        /\ run.start = "started"
        /\ run.n > 0
        /\ run.swept = run.n
        /\ run.failed \cup run.polled = 1..run.n
        /\ 2 * Cardinality(run.failed) <= run.n

C23_Witness ==
    /\ run.loop = "wait"
    /\ \E w \in Wallets : run.inflight[w] > 0
    /\ run.failed # {}
    /\ run.n = MaxWallets

\* C24: after a successful Start, once Stop() has returned no per-wallet poll task is
\* in flight and the polling loop has returned; and no step taken after Stop() has
\* returned starts a task or changes the Ledger Store or the correlation cache.
C24_StopWaitsForPolls ==
    /\ [](run.stop = "returned" =>
            /\ \A w \in Wallets : run.inflight[w] = 0
            /\ run.loop = "returned")
    /\ [][run.stop = "returned" =>
            /\ UNCHANGED <<dbVars, ledger, processedTxIds>>
            /\ run'.inflight = run.inflight]_vars

\* Stop() has returned after a cycle that polled a wallet
C24_Witness ==
    /\ run.stop = "returned"
    /\ run.cycles = 1
    /\ run.polled # {}

\* the scheduling of main: the deadline of the shutdown context arrives and the
\* select of main runs when one of its cases is ready; nothing is assumed about
\* the tasks, the loops or Stop, which may hang in a backend call
SpecLifeFair == SpecLife /\ WF_vars(Timer_Fires) /\ WF_vars(Main_Exit)

\* C25: once the shutdown signal is received the process exits, whether or not the
\* poll tasks, the polling loop and Stop() ever make another step: when Stop() has
\* not returned by the deadline, main takes the timeout case.
C25_BoundedShutdown ==
    (run.main = "shutdown") ~> (run.main \in {"exited graceful", "exited forced"})

\* the process exited on the timeout with a poll task still in flight
C25_Witness ==
    /\ run.main = "exited forced"
    /\ run.stop # "returned"
    /\ \E w \in Wallets : run.inflight[w] > 0

\* C26: when the recovery sweep has gone over every monitored wallet, Start fails if
\* and only if strictly more than half of the wallets could not be fetched; with
\* half or fewer failed, startup proceeds.
C26_MajorityFailsStart ==
    (run.n > 0 /\ run.swept = run.n /\ run.start \in {"failed", "started"})
        => (run.start = "failed" <=> 2 * Cardinality(run.failed) > run.n)

\* exactly half of the wallets failed and the listener started
C26_Witness ==
    /\ run.start = "started"
    /\ 2 * Cardinality(run.failed) = run.n

\* C27: for each monitored wallet at most one poll task is in flight at any time, and
\* a cycle starts its tasks only when every task of the previous cycle has ended.
C27_CyclesDoNotOverlap ==
    /\ [](\A w \in Wallets : run.inflight[w] <= 1)
    /\ [][(\E w \in Wallets : run'.inflight[w] > run.inflight[w])
            => \A w \in Wallets : run.inflight[w] = 0]_vars

\* the tasks of a second cycle are in flight
C27_Witness ==
    /\ run.cycles = 1
    /\ run.n > 1
    /\ \A w \in Wallets : run.inflight[w] = 1

\* what Alice is owed for her deposits in the wallets fetched so far
OwedToAlice ==
    (IF WalletOf("d1") \in run.polled THEN TxInfo("d1").amount ELSE 0)
        + (IF WalletOf("d3") \in run.polled THEN TxInfo("d3").amount ELSE 0)

\* C28: the failed dispatch of one transaction (d2, which no user owns) halts neither
\* its wallet's task nor the others: once a wallet's page has been fetched, every
\* other transaction of the page has been dispatched (Alice's deposits are credited
\* and marked), whatever the order of the page, and so for every other wallet.
C28_FailureDoesNotHaltCycle ==
    /\ \A id \in LifeIds :
          (WalletOf(id) \in run.polled /\ Owner(id) # NoUser)
              => isTransactionProcessed(Listener, id)
    /\ GetUserBalance(StoreState, Alice) = OwedToAlice

\* the sweep could not fetch wallet 1; a poll task of a cycle fetched it: the dispatch
\* of d2 failed, d1 and, in the other wallet, d3 were credited
C28_Witness ==
    /\ run.failed = {1}
    /\ run.polled = {1, 2}
    /\ ~isTransactionProcessed(Listener, "d2")
    /\ isTransactionProcessed(Listener, "d1")
    /\ isTransactionProcessed(Listener, "d3")
    /\ GetUserBalance(StoreState, Alice) = 3

(***************************************************************************)
(* Deposits with another status                                            *)
(***************************************************************************)
\* the record RecordPlatformTransaction leaves for a transaction id
PlatformTransactionRecorded(id) ==
    IF backend = Sqlite THEN ExistsExternalId(transactions, id)
    ELSE HasReference(ledger, id)

\* C29: a DEPOSIT event whose status is neither import-pending nor imported, once
\* dispatched by a cycle, is recorded in the Ledger Store as a platform transaction.
C29_OtherStatusRecorded ==
    \A d \in DepositIds :
        [id |-> d, status |-> "TRANSACTION_FAILED", handled |-> TRUE] \in pollLog
            => PlatformTransactionRecorded(d)

(***************************************************************************)
(* Everything the double-entry backend posts: the ten store operations     *)
(* plus RecordConversion and RecordPlatformTransaction, which only this    *)
(* backend books as ledger transactions.                                   *)
(***************************************************************************)
DestinationAmounts == {1, 2}

Post_RecordConversion ==
    /\ StoreSize < MaxStoreRecords
    /\ \E id \in StIds, sa \in StAmounts, da \in DestinationAmounts :
           SetStore(F_RecordConversion(StoreState, sa, da, id).S)
    /\ UNCHANGED <<ptVars, run, conv, backend, processedTxIds, now, exch, coord, pollLog>>

Post_RecordPlatformTransaction ==
    /\ StoreSize < MaxStoreRecords
    /\ \E id \in StIds, a \in StAmounts :
           SetStore(F_RecordPlatformTransaction(StoreState, a, id).S)
    /\ UNCHANGED <<ptVars, run, conv, backend, processedTxIds, now, exch, coord, pollLog>>

InitPost ==
    /\ InitSystem(EmptyStore(Formance))
    /\ exch = <<>>
    /\ coord = <<>>

NextPost ==
    \/ NextStore
    \/ Post_RecordConversion
    \/ Post_RecordPlatformTransaction

SpecPost == InitPost /\ [][NextPost]_vars

\* the accounts a list of postings names as source or destination
Touched(ps) == {ps[k].src : k \in 1..Len(ps)} \cup {ps[k].dst : k \in 1..Len(ps)}

\* the sum, over a set of accounts, of what the postings add to each in one asset
RECURSIVE NetOver(_, _, _)
NetOver(ps, accounts, asset) ==
    IF accounts = {} THEN 0
    ELSE LET a == CHOOSE x \in accounts : TRUE
         IN AssetDelta(ps, a, asset) + NetOver(ps, accounts \ {a}, asset)

RevertReferences == StIds \cup ({ledger[i].wref : i \in 1..Len(ledger)} \ {NoMeta})

\* C31: on the double-entry backend a RevertTransaction for a reference whose
\* located transaction is already reverted returns success and leaves the ledger
\* (hence every balance) as it was, with no further compensating posting; in
\* particular a revert that succeeded, called a second time, is such a no-op.
C31_SecondRevertIsNoOp ==
    \A r \in RevertReferences :
        LET i == FirstByWithdrawalRef(ledger, r)
            first == F_RevertTransaction(StoreState, r)
            second == F_RevertTransaction(first.S, r)
        IN /\ (i # 0 /\ ledger[i].reverted) =>
                  /\ first.err = Nil
                  /\ first.S = StoreState
                  /\ Balances(first.S) = Balances(StoreState)
           /\ first.err = Nil =>
                  /\ second.err = Nil
                  /\ second.S = first.S
                  /\ Len(second.S.fl) = Len(first.S.fl)

C31_Witness ==
    \E i \in 1..Len(ledger) :
        /\ ledger[i].reverted
        /\ ledger[i].event = "withdrawal_initiated"
        /\ FirstByWithdrawalRef(ledger, ledger[i].wref) = i

(***************************************************************************)
(* The two backends side by side: every call is made on the relational     *)
(* store (account_balances, transactions) and on the double-entry ledger   *)
(* (ledger) with the same arguments.                                       *)
(***************************************************************************)
SqliteStore == [StoreState EXCEPT !.be = Sqlite]
FormanceStore == [StoreState EXCEPT !.be = Formance]

\* how a caller of the Ledger Store sees a returned error
Outcome(err) ==
    IF err = Nil THEN "success"
    ELSE IF IsDuplicateError(err) THEN "duplicate"
    ELSE "rejection"

Tw_Call(op) ==
    /\ Len(transactions) < MaxStoreRecords
    /\ Len(ledger) < MaxStoreRecords
    /\ \E c \in StoreCalls(op) :
          /\ account_balances' = Apply(SqliteStore, c).S.ab
          /\ transactions' = Apply(SqliteStore, c).S.txs
          /\ ledger' = Apply(FormanceStore, c).S.fl
    /\ UNCHANGED <<ptVars, run, conv, backend, processedTxIds, now, exch, coord, pollLog>>

TwinOps ==
    {"ProcessDepositPending", "ConfirmDeposit", "ProcessDeposit", "ProcessWithdrawal",
     "ConfirmWithdrawal", "ConfirmWithdrawalDirect", "ReverseWithdrawal"}

InitTwin ==
    /\ InitSystem(EmptyStore(Sqlite))
    /\ exch = <<>>
    /\ coord = <<>>

NextTwin ==
    \/ Tw_Call("ProcessDepositPending")
    \/ Tw_Call("ConfirmDeposit")
    \/ Tw_Call("ProcessDeposit")
    \/ Tw_Call("ProcessWithdrawal")
    \/ Tw_Call("ConfirmWithdrawal")
    \/ Tw_Call("ConfirmWithdrawalDirect")
    \/ Tw_Call("ReverseWithdrawal")

SpecTwin == InitTwin /\ [][NextTwin]_vars

\* C32: after the same sequence of deposits, reservations, settlements, direct
\* debits and reversals the two backends hold the same balance for every user,
\* and every further call has the same outcome (success, duplicate, rejection)
\* on both.
C32_BackendsAgree ==
    /\ \A u \in SysUsers :
          GetUserBalance(SqliteStore, u) = GetUserBalance(FormanceStore, u)
    /\ \A op \in TwinOps : \A c \in StoreCalls(op) :
          Outcome(Apply(SqliteStore, c).err) = Outcome(Apply(FormanceStore, c).err)

(***************************************************************************)
(* Coordinator invocations whose generated idempotency key was used        *)
(* before: the store already holds the reservation an earlier invocation   *)
(* wrote under that key.                                                   *)
(***************************************************************************)
PriorAmount == 2
KeyAmounts == {1, 2}

InitKey ==
    /\ \E be \in Backends : \E i \in Invocations :
          InitSystem(ProcessWithdrawal(FundedStore(be), Request(i).userId,
                                       PriorAmount, Request(i).key).S)
    /\ exch = [id \in {Request(i).tx : i \in Invocations} |-> NotListed]
    /\ coord \in [Invocations -> {NewInvocation(a) : a \in KeyAmounts}]

SpecKey == InitKey /\ [][NextCoord]_vars

\* the store holds a withdrawal recorded under this external id
WithdrawalRecorded(S, userId, key) ==
    IF S.be = Sqlite
    THEN \E j \in 1..Len(S.txs) :
            S.txs[j].user = userId /\ S.txs[j].ext = key /\ S.txs[j].type = "withdrawal"
    ELSE \E j \in 1..Len(S.fl) :
            S.fl[j].ref = key /\ S.fl[j].event = "withdrawal_initiated"

MaxDigits == 2
Digits == {0, 1, 9}
ConvSymbols == {"USD", "USDC", "USDT", "BTC", "ETH", "SOL", "DOGE"}
ConvExps == {-19, -18, -10, -9, -8, -7, -6, -3, -2, -1, 0, 1}

assetPrecision ==
    ("USD" :> 2) @@ ("USDC" :> 6) @@ ("USDT" :> 6) @@ ("BTC" :> 8) @@ ("ETH" :> 18)
        @@ ("SOL" :> 9)

\* a lookup that falls back to the precision of USD
precisionForCents(symbol) ==
    IF symbol \in DOMAIN assetPrecision THEN assetPrecision[symbol] ELSE 2

precisionFor(symbol) ==
    IF symbol \in DOMAIN assetPrecision THEN assetPrecision[symbol] ELSE 6

Zeros(n) == [k \in 1..n |-> 0]

\* Decimal.Shift: the exponent moves, the coefficient stays
Shift(d, n) == [d EXCEPT !.exp = @ + n]

\* Decimal.BigInt: rescale to exponent 0, cutting the digits behind the point
BigInt(d) ==
    IF d.value = <<>> THEN <<>>
    ELSE IF d.exp >= 0 THEN d.value \o Zeros(d.exp)
    ELSE IF 0 - d.exp >= Len(d.value) THEN <<>>
    ELSE SubSeq(d.value, 1, Len(d.value) + d.exp)

NewFromBigInt(value, exp) == [value |-> value, exp |-> exp]

\* the number a decimal stands for, with no trailing zero in the coefficient
RECURSIVE Normal(_)
Normal(d) ==
    IF d.value = <<>> THEN [value |-> <<>>, exp |-> 0]
    ELSE IF d.value[Len(d.value)] = 0
         THEN Normal([value |-> SubSeq(d.value, 1, Len(d.value) - 1), exp |-> d.exp + 1])
    ELSE d

\* Decimal.Equal
Equal(a, b) == Normal(a) = Normal(b)

FractionalDigits(d) == IF Normal(d).exp < 0 THEN 0 - Normal(d).exp ELSE 0

\* smallAmt := amount.Shift(int32(precisionFor(symbol))).BigInt()
toSmallestUnit(amount, symbol) == BigInt(Shift(amount, precisionFor(symbol)))

bigIntToDecimal(raw, symbol) ==
    LET p == IF symbol \in DOMAIN assetPrecision THEN assetPrecision[symbol] ELSE 6
    IN NewFromBigInt(raw, 0 - p)

\* the coefficients of the amounts tried: 1 to MaxDigits digits, no leading zero
Coefficients ==
    UNION {{v \in [1..n -> Digits] : v[1] # 0} : n \in 1..MaxDigits}

Conv_Write ==
    /\ conv.pos = "amount"
    /\ conv' = [conv EXCEPT !.pos = "written",
                            !.smallAmt = toSmallestUnit(conv.amount, conv.symbol)]
    /\ UNCHANGED <<dbVars, ptVars, run, backend, ledger, processedTxIds, now, exch, coord,
                   pollLog>>

Conv_Read ==
    /\ conv.pos = "written"
    /\ conv' = [conv EXCEPT !.pos = "read",
                            !.read = bigIntToDecimal(conv.smallAmt, conv.symbol)]
    /\ UNCHANGED <<dbVars, ptVars, run, backend, ledger, processedTxIds, now, exch, coord,
                   pollLog>>

InitConv ==
    /\ backend = Formance
    /\ account_balances = EmptyStore(backend).ab
    /\ transactions = <<>>
    /\ ledger = <<>>
    /\ processedTxIds = {}
    /\ now = 0
    /\ pollLog = {}
    /\ pc = [p \in Procs |-> "idle"]
    /\ ptLocal = [p \in Procs |-> NoLocal]
    /\ ptCalls = 0
    /\ ptLog = {}
    /\ rfwp = [p \in Procs |-> NoRfwp]
    /\ exch = <<>>
    /\ coord = <<>>
    /\ run = NoRun
    /\ \E v \in Coefficients, e \in ConvExps, s \in ConvSymbols :
          conv = [pos |-> "amount", amount |-> [value |-> v, exp |-> e], symbol |-> s,
                  smallAmt |-> <<>>, read |-> [value |-> <<>>, exp |-> 0]]

NextConv ==
    \/ Conv_Write
    \/ Conv_Read

SpecConv == InitConv /\ [][NextConv]_vars

\* C34: the precisions are USD 2, USDC and USDT 6, BTC 8, ETH 18, SOL 9 and 6 for
\* any other asset; an amount with no more fractional digits than the precision of
\* its asset, written in smallest units and read back, is the amount it was.
C34_AmountRoundTrip ==
    /\ precisionFor("USD") = 2 /\ precisionFor("USDC") = 6 /\ precisionFor("USDT") = 6
    /\ precisionFor("BTC") = 8 /\ precisionFor("ETH") = 18 /\ precisionFor("SOL") = 9
    /\ precisionFor("DOGE") = 6
    /\ (conv.pos = "read"
          /\ FractionalDigits(conv.amount) <= precisionFor(conv.symbol))
         => Equal(conv.read, conv.amount)

C34_Witness ==
    /\ conv.pos = "read"
    /\ conv.symbol = "ETH"
    /\ FractionalDigits(conv.amount) = 18
    /\ Len(conv.smallAmt) = 2

(***************************************************************************)
(* Deposits-pending on the double-entry backend                            *)
(***************************************************************************)
Observed == {d \in DOMAIN exch : exch[d].status # "none"}

\* the ledger holds the credit of deposit d: its D2, or the single-phase deposit
DepositConfirmed(d) ==
    HasReference(ledger, d \o "-confirmed") \/ HasReference(ledger, d)

\* C35: on the double-entry backend every D2 in the ledger follows the D1 of the
\* same deposit, whose funds it moves out of deposits-pending; and once every
\* deposit the Exchange has listed is confirmed, deposits-pending holds zero.
C35_PendingClearsToZero ==
    backend = Formance =>
        /\ \A i \in 1..Len(ledger) :
              ledger[i].event = "deposit_confirmed" =>
                  \E d \in DOMAIN exch : \E j \in 1..(i - 1) :
                      /\ ledger[i].ref = d \o "-confirmed"
                      /\ ledger[j].ref = d \o "-pending"
                      /\ ledger[j].event = "deposit_pending"
        /\ (Observed # {} /\ \A d \in Observed : DepositConfirmed(d))
              => volumeBalance(ledger, DepositsPendingAccount) = 0

(***************************************************************************)
(* A dispatch that returns an error                                        *)
(***************************************************************************)
\* the error processDeposit returns to pollWallet for tx, Nil when it returns nil:
\* the store's error when it is not a duplicate (pending), the API result's error
\* when its text is neither sentinel's (imported)
processDepositError(L, tx) ==
    LET p == ProcessDepositPending(L.S, tx.amount, tx.id)
        c == ConfirmDeposit(L.S, tx.address, tx.amount, tx.id)
        r == API_ProcessDeposit(c.S, tx.address, tx.amount, tx.id)
    IN IF tx.status = "TRANSACTION_IMPORT_PENDING"
       THEN IF tx.amount > 0 /\ p.err # Nil /\ ~IsStoreDuplicate(p.err)
            THEN "failed to record pending deposit" ELSE Nil
       ELSE IF tx.status = "TRANSACTION_IMPORTED"
       THEN IF /\ tx.amount > 0 /\ tx.address # ""
               /\ c.err # Nil
               /\ ~r.Success
               /\ r.Error # DuplicateText /\ r.Error # UserNotFoundText
            THEN "deposit processing failed" ELSE Nil
       ELSE Nil

\* the Exchange still returns id to a cycle that runs at time t
StillFetched(id, t) == exch[id].status # "none" /\ exch[id].created >= t - LookbackWindow

\* C36: when the dispatch of a fetched transaction returns an error (one that is
\* neither the duplicate nor the not-found-user sentinel), the transaction is not
\* in the correlation cache afterwards, and a later cycle that still fetches it
\* does not skip it: it dispatches it again.
C36_FailedDispatchRetried ==
    \A id \in Fetched(now - LookbackWindow) :
        LET tx == PrimeTransaction(id)
            L1 == processTransaction(Listener, tx, now)
        IN (~isTransactionProcessed(Listener, id) /\ processDepositError(Listener, tx) # Nil)
             => /\ ~isTransactionProcessed(L1, id)
                /\ \A t \in now..MaxTime :
                      StillFetched(id, t) =>
                          pollWallet(L1, <<tx>>, t) = processDeposit(L1, tx, t)

\* a deposit that a cycle dispatched is still out of the cache, and its dispatch
\* returns an error again
C36_Witness ==
    \E id \in Fetched(now - LookbackWindow) :
        /\ \E e \in pollLog : e.id = id /\ e.handled /\ e.status = exch[id].status
        /\ ~isTransactionProcessed(Listener, id)
        /\ processDepositError(Listener, PrimeTransaction(id)) # Nil

(***************************************************************************)
(* The debits one withdrawal leaves in the store                           *)
(***************************************************************************)
\* the debit records of withdrawal q, whichever account they debit and whichever
\* of the two ids (idempotency key, Exchange transaction id) they are written under
DebitRecords(q) ==
    IF backend = Sqlite
    THEN {j \in 1..Len(transactions) :
             /\ transactions[j].type = "withdrawal"
             /\ transactions[j].ext \in {q.key, q.tx}}
    ELSE {j \in 1..Len(ledger) :
             /\ ledger[j].event \in {"withdrawal_initiated", "withdrawal_pending_from_wallet",
                                     "withdrawal_confirmed_direct"}
             /\ ledger[j].ref \in {q.key, q.tx, q.tx \o "-direct"}}

\* C37: the withdrawal the Coordinator reserved and the Reconciler then observes
\* has at most one debit record, and the user is debited at most once for it,
\* whatever the Reconciler's first write returned and whether or not it made a
\* second write under the Exchange transaction id or against the wallet.
C37_AtMostOneDebit ==
    /\ Cardinality(DebitRecords(Request(1))) <= 1
    /\ AliceBalance >= Funding.amount - coord[1].amount

\* C38: a step of the cleanup task removes a cache entry only if it was marked more
\* than the lookback window ago; an entry marked within the window stays in the
\* cache, and polling skips its transaction without touching the store or the cache
C38_CleanupKeepsRecent ==
    [][Cleanup =>
         \A e \in processedTxIds :
            /\ e \notin processedTxIds' => now - e.at > LookbackWindow
            /\ now - e.at <= LookbackWindow =>
                 /\ e \in processedTxIds'
                 /\ isTransactionProcessed(Listener', e.id)
                 /\ pollWallet(Listener', <<PrimeTransaction(e.id)>>, now') = Listener']_vars

\* the cache holds an entry marked exactly the lookback window ago, and d1, handled
\* and marked by an earlier poll, has been evicted
C38_Witness ==
    /\ \E e \in processedTxIds : e.id = "d2" /\ now - e.at = LookbackWindow
    /\ ~isTransactionProcessed(Listener, "d1")
    /\ \E x \in pollLog : x.id = "d1" /\ x.handled /\ x.status = "TRANSACTION_IMPORTED"
    /\ now - exch["d1"].created > LookbackWindow

\* what a reversal of the reservation under this key leaves in the store: the
\* compensating credit, or the reservation flagged as reverted
ReversalTraces(key) ==
    IF backend = Sqlite
    THEN {j \in 1..Len(transactions) : transactions[j].ext = ReversalId(key)}
    ELSE {j \in 1..Len(ledger) :
            \/ ledger[j].ref = ReversalId(key)
            \/ ledger[j].wref = key /\ ledger[j].reverted}

\* C39: an invocation submits its withdrawal to the Exchange only in a state where
\* the reservation under its idempotency key is committed, and it holds a
\* reservation only when ProcessWithdrawal under that key has just written one; an
\* invocation whose reservation failed stops: it never moves again, nothing is
\* submitted for it, and no reversal of its key is made (a reversal is only made
\* by an invocation whose submission failed after a committed reservation).
C39_SubmitOnlyAfterReserve ==
    [][\A i \in Invocations :
          LET q == Request(i)
          IN /\ exch'[q.tx] # exch[q.tx] =>
                  /\ coord[i].pc = "reserved"
                  /\ WithdrawalRecorded(StoreState, q.userId, q.key)
             /\ (coord[i].pc # "reserved" /\ coord'[i].pc = "reserved") =>
                  /\ coord[i].pc = "verified"
                  /\ ~WithdrawalRecorded(StoreState, q.userId, q.key)
                  /\ WithdrawalRecorded(StoreState', q.userId, q.key)
             /\ (coord[i].pc = "verified" /\ coord'[i].pc = "fatal") =>
                  /\ exch' = exch
                  /\ ReversalTraces(q.key)' = ReversalTraces(q.key)
             /\ coord[i].pc = "fatal" =>
                  /\ coord'[i] = coord[i]
                  /\ exch'[q.tx] = exch[q.tx]
             /\ ReversalTraces(q.key)' # ReversalTraces(q.key) => coord[i].pc = "rollback"
             /\ (coord[i].pc # "rollback" /\ coord'[i].pc = "rollback") =>
                  coord[i].pc = "reserved"]_vars

\* one invocation passed the balance check and then failed to reserve (its key is
\* already in the ledger): nothing was submitted or reversed for it; the other one
\* reserved and submitted
C39_Witness ==
    \E i, j \in Invocations :
       /\ coord[i].pc = "fatal"
       /\ coord[i].balance >= coord[i].amount
       /\ exch[Request(i).tx].status = "none"
       /\ ReversalTraces(Request(i).key) = {}
       /\ coord[j].pc = "done"
       /\ exch[Request(j).tx].status = "TRANSACTION_CREATED"
       /\ WithdrawalRecorded(StoreState, Request(j).userId, Request(j).key)
====
